---------------------------- MODULE Spec2Model ----------------------------
(***************************************************************************)
(* A model of mycroft/util/lang/parse_en.py: the English number extractor, *)
(* the multi-number extractor and word-to-digit rewriter, the duration     *)
(* extractor and the date-time extractor.                                  *)
(*                                                                         *)
(* Texts and words are TLA+ strings, handled character by character the    *)
(* way the Python built-ins handle them (split, join, replace, isdigit,    *)
(* int, float, str).  Numbers are exact rationals n/d tagged with the      *)
(* Python type that carries them (bool False, None, int, float).           *)
(***************************************************************************)
EXTENDS Integers, Sequences, FiniteSets, TLC

VARIABLES
    pc,         \* position of the running entry point
    text,       \* the text argument of the entry point
    ordinals,   \* the ordinals argument of the number entry points
    buf,        \* extract_numbers_with_text: the progressively masked text
    results,    \* extract_numbers_with_text: the list of result tuples
    last,       \* the tuple returned by the latest extract_number_with_text_en
    out1,       \* convert_words_to_numbers(text)
    out2,       \* convert_words_to_numbers(out1)
    ret,        \* what the entry point returned, or the fault it raised
    unit,       \* extract_duration_en: position in time_unit_to_seconds_map
    pieces,     \* extract_duration_en: the list of matched contributions
    duration,   \* extract_duration_en: the first component of the result
    dt,         \* extract_datetime_en: its locals, the word list among them
    index,      \* extract_datetime_en: the index of the running sweep
    dateNow,    \* extract_datetime_en: the reference instant
    lexicon,    \* the module-level tables and sets, shared by every call
    calls       \* the locals of the calls of extract_numbers_with_text in progress

vars == <<pc, text, ordinals, buf, results, last, out1, out2, ret,
          unit, pieces, duration, dt, index, dateNow, lexicon, calls>>

-----------------------------------------------------------------------------
(* Python string built-ins                                                 *)

Digits == <<"0", "1", "2", "3", "4", "5", "6", "7", "8", "9">>

Char(s, i) == SubSeq(s, i, i)

IsDigitChar(c) == c \in {"0", "1", "2", "3", "4", "5", "6", "7", "8", "9"}

DigitVal(c) == CHOOSE v \in 0..9 : Digits[v + 1] = c

\* str.isdigit(): non-empty and every character a digit
IsDigitStr(s) == Len(s) > 0 /\ \A i \in 1..Len(s) : IsDigitChar(Char(s, i))

\* word[0].isdigit(); raises IndexError on the empty word (callers test that)
FirstIsDigit(w) == IsDigitChar(Char(w, 1))

RECURSIVE IntOfDigitsFrom(_, _, _)
IntOfDigitsFrom(s, i, acc) ==
    IF i > Len(s) THEN acc
    ELSE IntOfDigitsFrom(s, i + 1, acc * 10 + DigitVal(Char(s, i)))

\* int(s) for a string of digits
IntOfDigits(s) == IntOfDigitsFrom(s, 1, 0)

RECURSIVE StrOfNat(_)
StrOfNat(n) ==
    IF n < 10 THEN Digits[n + 1]
    ELSE StrOfNat(n \div 10) \o Digits[(n % 10) + 1]

\* str(n) for an int
StrOfInt(n) == IF n < 0 THEN "-" \o StrOfNat(0 - n) ELSE StrOfNat(n)

RECURSIVE SplitFrom(_, _, _, _)
SplitFrom(s, i, cur, acc) ==
    IF i > Len(s) THEN (IF cur = "" THEN acc ELSE Append(acc, cur))
    ELSE IF Char(s, i) = " "
         THEN SplitFrom(s, i + 1, "", IF cur = "" THEN acc ELSE Append(acc, cur))
         ELSE SplitFrom(s, i + 1, cur \o Char(s, i), acc)

\* s.split(): the words between runs of blanks
Split(s) == SplitFrom(s, 1, "", <<>>)

RECURSIVE Join(_)
\* ' '.join(ws)
Join(ws) ==
    IF ws = <<>> THEN ""
    ELSE IF Len(ws) = 1 THEN ws[1]
    ELSE ws[1] \o " " \o Join(Tail(ws))

\* s.startswith(p, at i)
MatchAt(s, i, p) == i + Len(p) - 1 <= Len(s) /\ SubSeq(s, i, i + Len(p) - 1) = p

\* p in s
Contains(s, p) == \E i \in 1..(Len(s) + 1) : MatchAt(s, i, p)

RECURSIVE ReplaceFrom(_, _, _, _)
ReplaceFrom(s, i, old, new) ==
    IF i > Len(s) THEN ""
    ELSE IF MatchAt(s, i, old) THEN new \o ReplaceFrom(s, i + Len(old), old, new)
    ELSE Char(s, i) \o ReplaceFrom(s, i + 1, old, new)

\* s.replace(old, new): every non-overlapping occurrence, left to right
Replace(s, old, new) == ReplaceFrom(s, 1, old, new)

RECURSIVE RStrip(_, _)
\* s.rstrip(c)
RStrip(s, c) ==
    IF Len(s) > 0 /\ Char(s, Len(s)) = c THEN RStrip(SubSeq(s, 1, Len(s) - 1), c)
    ELSE s

RECURSIVE LStrip(_, _)
LStrip(s, c) ==
    IF Len(s) > 0 /\ Char(s, 1) = c THEN LStrip(SubSeq(s, 2, Len(s)), c)
    ELSE s

\* s.strip()
Strip(s) == RStrip(LStrip(s, " "), " ")

-----------------------------------------------------------------------------
(* Python numbers: bool False, None, int and float as exact rationals      *)

RECURSIVE GCD(_, _)
GCD(a, b) == IF b = 0 THEN a ELSE GCD(b, a % b)

Abs(n) == IF n < 0 THEN 0 - n ELSE n

VFalse == [k |-> "false", n |-> 0, d |-> 1]
VNone == [k |-> "none", n |-> 0, d |-> 1]
VErr == [k |-> "err", n |-> 0, d |-> 1]
VInt(i) == [k |-> "int", n |-> i, d |-> 1]

\* the float n/d, in lowest terms with d > 0
VFloat(n, d) ==
    LET Reduced(g, s) == [k |-> "float", n |-> (s * n) \div g, d |-> (s * d) \div g]
    IN  Reduced(GCD(Abs(n), Abs(d)), IF d < 0 THEN 0 - 1 ELSE 1)

IsNum(v) == v.k \in {"false", "int", "float"}

\* bool(v): False, None, 0 and 0.0 are falsy
Truthy(v) == v.k \in {"int", "float"} /\ v.n # 0

\* a binary operation on None raises TypeError
Arith(a, b, n, d) ==
    IF ~IsNum(a) \/ ~IsNum(b) THEN VErr
    ELSE IF a.k = "float" \/ b.k = "float" THEN VFloat(n, d)
    ELSE VInt(n)

Add(a, b) == Arith(a, b, a.n * b.d + b.n * a.d, a.d * b.d)
Sub(a, b) == Arith(a, b, a.n * b.d - b.n * a.d, a.d * b.d)
Mul(a, b) == Arith(a, b, a.n * b.n, a.d * b.d)

Less(a, b) == a.n * b.d < b.n * a.d

RECURSIVE SumList(_)
\* sum(xs)
SumList(xs) == IF xs = <<>> THEN VInt(0) ELSE Add(xs[1], SumList(Tail(xs)))

-----------------------------------------------------------------------------
(* Number literals: is_numeric, float(), str()                             *)

FloatDigits == 6

Unsigned(s) ==
    IF Len(s) > 0 /\ Char(s, 1) \in {"-", "+"} THEN SubSeq(s, 2, Len(s)) ELSE s

\* index of the first "." of s, 0 when there is none
DotIndex(s) ==
    IF \E i \in 1..Len(s) : Char(s, i) = "."
    THEN CHOOSE i \in 1..Len(s) :
             Char(s, i) = "." /\ \A j \in 1..(i - 1) : Char(s, j) # "."
    ELSE 0

IntPart(s) ==
    LET Left(b, i) == IF i = 0 THEN b ELSE SubSeq(b, 1, i - 1)
    IN  Left(Unsigned(s), DotIndex(Unsigned(s)))

FracPart(s) ==
    LET Right(b, i) == IF i = 0 THEN "" ELSE SubSeq(b, i + 1, Len(b))
    IN  Right(Unsigned(s), DotIndex(Unsigned(s)))

\* parse_common.is_numeric: float(input_str) does not raise.  Decimal
\* literals with an optional sign; exponents, "inf" and "nan" are not modelled.
is_numeric(s) ==
    LET Literal(ip, fp) ==
            /\ ip = "" \/ IsDigitStr(ip)
            /\ fp = "" \/ IsDigitStr(fp)
            /\ ip # "" \/ fp # ""
    IN  Literal(IntPart(s), FracPart(s))

RECURSIVE Pow10(_)
Pow10(e) == IF e = 0 THEN 1 ELSE 10 * Pow10(e - 1)

\* float(s) for a literal accepted by is_numeric
FloatOf(s) ==
    LET Value(ip, fp, sc, sg) == VFloat(sg * (ip * sc + fp), sc)
    IN  Value(IntOfDigits(IntPart(s)), IntOfDigits(FracPart(s)),
              Pow10(Len(FracPart(s))),
              IF Len(s) > 0 /\ Char(s, 1) = "-" THEN 0 - 1 ELSE 1)

RECURSIVE FracDigits(_, _, _)
FracDigits(r, d, fuel) ==
    IF r = 0 \/ fuel = 0 THEN ""
    ELSE Digits[((r * 10) \div d) + 1] \o FracDigits((r * 10) % d, d, fuel - 1)

\* str(v): "2" for an int, "2.0" / "2.5" for a float (at most FloatDigits
\* decimals are written), "False" and "None"
StrOfVal(v) ==
    LET Decimal(a, r) ==
            (IF v.n < 0 THEN "-" ELSE "") \o StrOfNat(a \div v.d) \o "."
            \o (IF r = 0 THEN "0" ELSE FracDigits(r, v.d, FloatDigits))
    IN  IF v.k = "false" THEN "False"
        ELSE IF v.k = "none" THEN "None"
        ELSE IF v.k = "int" THEN StrOfInt(v.n)
        ELSE Decimal(Abs(v.n), Abs(v.n) % v.d)

-----------------------------------------------------------------------------
(* The lexicon (mycroft/util/lang/common_data_en.py)                       *)

ARTICLES == {"a", "an", "the"}

NUM_STRING_EN ==
    [zero |-> 0, one |-> 1, two |-> 2, three |-> 3, four |-> 4, five |-> 5,
     six |-> 6, seven |-> 7, eight |-> 8, nine |-> 9, ten |-> 10,
     eleven |-> 11, twelve |-> 12, thirteen |-> 13, fourteen |-> 14,
     fifteen |-> 15, sixteen |-> 16, seventeen |-> 17, eighteen |-> 18,
     nineteen |-> 19, twenty |-> 20, thirty |-> 30, forty |-> 40,
     fifty |-> 50, sixty |-> 60, seventy |-> 70, eighty |-> 80,
     ninety |-> 90]

SHORT_SCALE_EN == [hundred |-> 100, thousand |-> 1000, million |-> 1000000]

SHORT_ORDINAL_STRING_EN ==
    [first |-> 1, second |-> 2, third |-> 3, fourth |-> 4, fifth |-> 5,
     sixth |-> 6, seventh |-> 7, eighth |-> 8, ninth |-> 9, tenth |-> 10]

\* the key of table t that w is, or is the plural of ("" when there is none)
SingularIn(w, t) ==
    IF w \in DOMAIN t THEN w
    ELSE IF Len(w) > 1 /\ Char(w, Len(w)) = "s" /\ SubSeq(w, 1, Len(w) - 1) \in DOMAIN t
    THEN SubSeq(w, 1, Len(w) - 1)
    ELSE ""

_NEGATIVES == {"negative", "minus"}

_SUMS == {"twenty", "20", "thirty", "30", "forty", "40", "fifty", "50",
          "sixty", "60", "seventy", "70", "eighty", "80", "ninety", "90"}

_FRACTION_MARKER == {"and"}

_DECIMAL_MARKER == {"point", "dot"}

\* the tables and sets as the import of the module leaves them
ModuleTables ==
    [ARTICLES |-> ARTICLES, NUM_STRING_EN |-> NUM_STRING_EN,
     SHORT_SCALE_EN |-> SHORT_SCALE_EN,
     SHORT_ORDINAL_STRING_EN |-> SHORT_ORDINAL_STRING_EN,
     _NEGATIVES |-> _NEGATIVES, _SUMS |-> _SUMS,
     _FRACTION_MARKER |-> _FRACTION_MARKER, _DECIMAL_MARKER |-> _DECIMAL_MARKER]

\* the calls look the words up in the tables as they are when they run
\* word in _STRING_NUM_EN: the number words, their plurals, half, halves, couple
InStringNum(w) ==
    w \in {"half", "halves", "couple"} \/ SingularIn(w, lexicon.NUM_STRING_EN) # ""

\* _STRING_NUM_EN.get(word)
StringNum(w) ==
    IF w \in {"half", "halves"} THEN VFloat(1, 2)
    ELSE IF w = "couple" THEN VInt(2)
    ELSE VInt(lexicon.NUM_STRING_EN[SingularIn(w, lexicon.NUM_STRING_EN)])

\* word in multiplies, word in string_num_scale (_initialize_number_data
\* with short_scale=True): the scale words and their plurals
InMultiplies(w) == SingularIn(w, lexicon.SHORT_SCALE_EN) # ""

InScale(w) == SingularIn(w, lexicon.SHORT_SCALE_EN) # ""

StringNumScale(w) == VInt(lexicon.SHORT_SCALE_EN[SingularIn(w, lexicon.SHORT_SCALE_EN)])

\* word in string_num_ordinal (no plurals)
InOrdinal(w) == w \in DOMAIN lexicon.SHORT_ORDINAL_STRING_EN

StringNumOrdinal(w) == VInt(lexicon.SHORT_ORDINAL_STRING_EN[w])

\* isFractional_en: False, or 1.0 / n for whole, half, halve, quarter and the
\* ordinal words above 2, after one trailing "s" is dropped
isFractional_en(input_str) ==
    LET Fraction(s) ==
            IF s = "whole" THEN VFloat(1, 1)
            ELSE IF s \in {"half", "halve"} THEN VFloat(1, 2)
            ELSE IF s = "quarter" THEN VFloat(1, 4)
            ELSE IF InOrdinal(s) /\ lexicon.SHORT_ORDINAL_STRING_EN[s] > 2
                 THEN VFloat(1, lexicon.SHORT_ORDINAL_STRING_EN[s])
            ELSE VFalse
    IN  Fraction(IF Len(input_str) > 0 /\ Char(input_str, Len(input_str)) = "s"
                 THEN SubSeq(input_str, 1, Len(input_str) - 1) ELSE input_str)

\* index of the "/" of a word with exactly one, else 0
SlashIndex(w) ==
    IF Cardinality({i \in 1..Len(w) : Char(w, i) = "/"}) = 1
    THEN CHOOSE i \in 1..Len(w) : Char(w, i) = "/"
    ELSE 0

\* parse_common.look_for_fractions(word.split('/')): two numeric pieces
look_for_fractions(w) ==
    LET Pieces(i) ==
            /\ i > 0
            /\ is_numeric(SubSeq(w, 1, i - 1))
            /\ is_numeric(SubSeq(w, i + 1, Len(w)))
    IN  Pieces(SlashIndex(w))

-----------------------------------------------------------------------------
(* The number extractor                                                    *)

\* _tokenize with positions counted from 1 instead of 0
TokenizeFromOne(t) ==
    LET Tokens(ws) == [i \in 1..Len(ws) |-> [word |-> ws[i], index |-> i]]
    IN  Tokens(Split(t))

\* _tokenize: the words of the text with their 0-based positions
_tokenize(t) ==
    LET Tokens(ws) == [i \in 1..Len(ws) |-> [word |-> ws[i], index |-> i - 1]]
    IN  Tokens(Split(t))

WordsOf(tokens) == [i \in 1..Len(tokens) |-> tokens[i].word]

RECURSIVE PartitionFrom(_, _, _, _)
PartitionFrom(items, i, c, cur) ==
    IF i > Len(items) THEN <<cur>>
    ELSE IF items[i].word = c
         THEN <<cur, <<items[i]>>>> \o PartitionFrom(items, i + 1, c, <<>>)
         ELSE PartitionFrom(items, i + 1, c, Append(cur, items[i]))

\* _partition_list(items, lambda t: t.word == c): the runs between the
\* tokens equal to c and those tokens themselves, empty runs dropped
_partition_list(items, c) == SelectSeq(PartitionFrom(items, 1, c, <<>>), LAMBDA x : x # <<>>)

NoNumber == [val |-> VNone, toks |-> <<>>, fault |-> FALSE]

Faulted == [val |-> VErr, toks |-> <<>>, fault |-> TRUE]

\* word is none of: scale word, number word, tens word, multiplier, ordinal
\* (when enabled), numeric literal, fractional word, slash fraction
Unrecognised(word, ords) ==
    /\ ~InScale(word)
    /\ ~InStringNum(word)
    /\ word \notin lexicon._SUMS
    /\ ~InMultiplies(word)
    /\ ~(ords /\ InOrdinal(word))
    /\ ~is_numeric(word)
    /\ ~Truthy(isFractional_en(word))
    /\ ~look_for_fractions(word)

\* the branch that starts a new run of number words at this token
StartsRun(word, prev_word, ords) ==
    \/ /\ ~InMultiplies(word)
       /\ ~InMultiplies(prev_word)
       /\ prev_word \notin lexicon._SUMS
       /\ ~(ords /\ InOrdinal(prev_word))
       /\ prev_word \notin lexicon._NEGATIVES
       /\ prev_word \notin lexicon.ARTICLES
    \/ prev_word \in lexicon._SUMS /\ word \in lexicon._SUMS

\* float(aPieces[0]) / float(aPieces[1]); dividing by zero raises
SlashValue(w) ==
    LET Quotient(a, b) == IF b.n = 0 THEN VErr ELSE VFloat(a.n * b.d, a.d * b.n)
    IN  Quotient(FloatOf(SubSeq(w, 1, SlashIndex(w) - 1)),
                 FloatOf(SubSeq(w, SlashIndex(w) + 1, Len(w))))

\* one pass of the for loop of _extract_number_with_text_en over tokens[idx],
\* on the loop state st = [nw, val, prev_val, to_sum, brk]
ScanStep(tokens, idx, st, ords) ==
    LET token == tokens[idx]
        word == tokens[idx].word
        prev_word == IF idx > 1 THEN tokens[idx - 1].word ELSE ""
        next_word == IF idx + 1 <= Len(tokens) THEN tokens[idx + 1].word ELSE ""
        nw1 == IF StartsRun(word, prev_word, ords) THEN <<token>>
               ELSE Append(st.nw, token)
        v1 == IF is_numeric(word)
              THEN (IF IsDigitStr(word) THEN VInt(IntOfDigits(word)) ELSE FloatOf(word))
              ELSE st.val
        v2 == IF InStringNum(word) THEN StringNum(word)
              ELSE IF InScale(word) THEN StringNumScale(word)
              ELSE IF ords /\ InOrdinal(word) THEN StringNumOrdinal(word)
              ELSE v1
        V3(v) == IF ords /\ InOrdinal(prev_word) /\ v = VInt(1) THEN st.prev_val ELSE v
        V4(v) == IF /\ prev_word \in lexicon._SUMS
                    /\ InStringNum(word) \/ InScale(word) \/ (ords /\ InOrdinal(word))
                    /\ Truthy(v) /\ Less(v, VInt(10))
                 THEN Add(st.prev_val, v) ELSE v
        pv1 == IF InMultiplies(word) /\ ~Truthy(st.prev_val) THEN VInt(1) ELSE st.prev_val
        V5(v) == IF InMultiplies(word) THEN Mul(pv1, v) ELSE v
        V6(v) == IF v.k = "false" THEN isFractional_en(word) ELSE v
        V7(v, next_value) ==
            IF ~ords /\ Truthy(next_value)
            THEN Mul(IF Truthy(v) THEN v ELSE VInt(1), next_value) ELSE v
        V8(v) == IF Truthy(v) /\ prev_word \in lexicon._NEGATIVES THEN Sub(VInt(0), v) ELSE v
        Recognised(nw, pv, v) ==
            IF ~Truthy(v)
            THEN [st EXCEPT !.nw = nw, !.prev_val = pv,
                            !.val = IF look_for_fractions(word) THEN SlashValue(word) ELSE v]
            ELSE IF InMultiplies(word) /\ ~InMultiplies(next_word)
            THEN [st EXCEPT !.nw = nw, !.to_sum = Append(st.to_sum, v),
                            !.val = VInt(0), !.prev_val = VInt(0)]
            ELSE [st EXCEPT !.nw = nw, !.val = v, !.prev_val = v]
    IN  IF word \in lexicon.ARTICLES \/ word \in lexicon._NEGATIVES
        THEN [st EXCEPT !.nw = Append(st.nw, token)]
        ELSE IF Unrecognised(word, ords)
        THEN IF st.nw # <<>> /\ ~(\A i \in 1..Len(st.nw) : st.nw[i].word \in lexicon.ARTICLES \cup lexicon._NEGATIVES)
             THEN [st EXCEPT !.brk = TRUE]
             ELSE [st EXCEPT !.nw = <<>>]
        ELSE Recognised(nw1, pv1,
                        V8(V7(V6(V5(V4(V3(v2)))), isFractional_en(next_word))))

RECURSIVE Scan(_, _, _, _)
Scan(tokens, idx, st, ords) ==
    IF idx > Len(tokens) \/ st.brk \/ st.val.k = "err" THEN st
    ELSE Scan(tokens, idx + 1, ScanStep(tokens, idx, st, ords), ords)

ScanInit == [nw |-> <<>>, val |-> VFalse, prev_val |-> VNone, to_sum |-> <<>>, brk |-> FALSE]

\* the loop and the final sum of _extract_number_with_text_en
ScanTokens(tokens, ords) ==
    LET Total(st) == IF st.val.k # "none" /\ st.to_sum # <<>>
                     THEN Add(st.val, SumList(st.to_sum)) ELSE st.val
        Result(st, total) ==
            IF st.val.k = "err" \/ total.k = "err" THEN Faulted
            ELSE [val |-> total, toks |-> st.nw, fault |-> FALSE]
        Finish(st) == Result(st, Total(st))
    IN  Finish(Scan(tokens, 1, ScanInit, ords))

\* float("0." + str(decimal)); raises ValueError unless str(decimal) is digits
DecimalTail(decimal) ==
    LET Tail01(sd) ==
            IF IsDigitStr(sd) THEN VFloat(IntOfDigits(sd), Pow10(Len(sd))) ELSE VErr
    IN  Tail01(StrOfVal(decimal))

RECURSIVE _extract_number_with_text_en(_, _)
RECURSIVE NumbersLoop(_, _, _)

\* _extract_fraction: "<number> and <fraction>"
_extract_fraction(tokens) ==
    LET Mixed(partitions, r1, r2) ==
            IF r1.fault \/ r2.fault THEN Faulted
            ELSE IF /\ r1.val.k # "none" /\ r2.val.k # "none"
                    /\ ~Less(r1.val, VInt(1))
                    /\ Less(VInt(0), r2.val) /\ Less(r2.val, VInt(1))
            THEN [val |-> Add(r1.val, r2.val),
                  toks |-> r1.toks \o partitions[2] \o r2.toks, fault |-> FALSE]
            ELSE NoNumber
        Checked(partitions, numbers) ==
            IF numbers.fault THEN Faulted
            ELSE IF Len(numbers.results) > 1 THEN NoNumber
            ELSE Mixed(partitions,
                       _extract_number_with_text_en(partitions[1], FALSE),
                       _extract_number_with_text_en(partitions[3], FALSE))
        Parts(partitions) ==
            IF Len(partitions) # 3 THEN NoNumber
            ELSE Checked(partitions,
                         NumbersLoop(Join(WordsOf(partitions[1])), FALSE, <<>>))
    IN  Parts(_partition_list(tokens, "and"))

\* the body of the loop of _extract_decimal for the marker c; done says
\* whether the function returned inside this pass
DecimalFor(tokens, c) ==
    LET Sum(partitions, r1, r2, tail) ==
            IF tail.k = "err" THEN [r |-> Faulted, done |-> TRUE]
            ELSE [r |-> [val |-> Add(r1.val, tail),
                         toks |-> r1.toks \o partitions[2] \o r2.toks,
                         fault |-> FALSE],
                  done |-> TRUE]
        Mixed(partitions, r1, r2) ==
            IF r1.fault \/ r2.fault THEN [r |-> Faulted, done |-> TRUE]
            ELSE IF r1.val.k = "none" \/ r2.val.k = "none" \/ r2.val.k = "float"
            THEN [r |-> NoNumber, done |-> FALSE]
            ELSE Sum(partitions, r1, r2, DecimalTail(r2.val))
        Checked(partitions, numbers) ==
            IF numbers.fault THEN [r |-> Faulted, done |-> TRUE]
            ELSE IF Len(numbers.results) > 1 THEN [r |-> NoNumber, done |-> TRUE]
            ELSE Mixed(partitions,
                       _extract_number_with_text_en(partitions[1], FALSE),
                       _extract_number_with_text_en(partitions[3], FALSE))
        Parts(partitions) ==
            IF Len(partitions) # 3 THEN [r |-> NoNumber, done |-> FALSE]
            ELSE Checked(partitions,
                         NumbersLoop(Join(WordsOf(partitions[1])), FALSE, <<>>))
    IN  Parts(_partition_list(tokens, c))

\* _extract_decimal: "<number> point <digits>".  The markers are tried in
\* this order; a text holds at most one kind of marker, so the order of the
\* set iteration does not show.
_extract_decimal(tokens) ==
    LET Markers(a) == IF a.done THEN a.r ELSE DecimalFor(tokens, "dot").r
    IN  Markers(DecimalFor(tokens, "point"))

\* _extract_number_with_text_en(tokens, short_scale=True, ordinals):
\* [val, toks, fault], the number found and the tokens it was read from
_extract_number_with_text_en(tokens, ords) ==
    LET Decimal(de) ==
            IF de.fault THEN Faulted
            ELSE IF Truthy(de.val) THEN de
            ELSE ScanTokens(tokens, ords)
        Fraction(fr) ==
            IF fr.fault THEN Faulted
            ELSE IF Truthy(fr.val) THEN fr
            ELSE Decimal(_extract_decimal(tokens))
    IN  Fraction(_extract_fraction(tokens))

RECURSIVE DropArticles(_)
\* while tokens and tokens[0].word in ARTICLES: tokens.pop(0)
DropArticles(tokens) ==
    IF tokens # <<>> /\ tokens[1].word \in lexicon.ARTICLES THEN DropArticles(Tail(tokens))
    ELSE tokens

Absent == 0 - 1

\* extract_number_with_text_en: (number, text, start_index, end_index), the
\* indices Absent (None) when no token was kept
extract_number_with_text_en(t, ords) ==
    LET Tuple(r, tokens) ==
            [number |-> r.val,
             string |-> Join(WordsOf(tokens)),
             start_index |-> IF tokens # <<>> THEN tokens[1].index ELSE Absent,
             end_index |-> IF tokens # <<>> THEN tokens[Len(tokens)].index ELSE Absent,
             fault |-> r.fault]
        Found(r) == Tuple(r, DropArticles(r.toks))
    IN  Found(_extract_number_with_text_en(_tokenize(t), ords))

placeholder == "<placeholder>"

\* a masking that leaves the token at start_index as it is
MaskAfterStart(t, start_index, end_index) ==
    LET Masked(tokens) ==
            Join([i \in 1..Len(tokens) |->
                     IF ~(start_index < tokens[i].index /\ tokens[i].index <= end_index)
                     THEN tokens[i].word ELSE placeholder])
    IN  Masked(_tokenize(t))
\* the masking of extract_numbers_with_text: the tokens whose index lies in
\* [start_index, end_index] become placeholders
MaskText(t, start_index, end_index) ==
    LET Masked(tokens) ==
            Join([i \in 1..Len(tokens) |->
                     IF ~(start_index <= tokens[i].index /\ tokens[i].index <= end_index)
                     THEN tokens[i].word ELSE placeholder])
    IN  Masked(_tokenize(t))

\* the while loop of extract_numbers_with_text from text t with the results
\* acc; comparing an absent index raises TypeError
NumbersLoop(t, ords, acc) ==
    LET Pass(r) ==
            IF r.fault THEN [results |-> acc, fault |-> TRUE]
            ELSE IF ~Truthy(r.number) THEN [results |-> acc, fault |-> FALSE]
            ELSE IF r.start_index = Absent THEN [results |-> Append(acc, r), fault |-> TRUE]
            ELSE NumbersLoop(MaskText(t, r.start_index, r.end_index), ords, Append(acc, r))
    IN  Pass(extract_number_with_text_en(t, ords))

extract_numbers_with_text(t, ords) == NumbersLoop(t, ords, <<>>)

-----------------------------------------------------------------------------
(* The word-to-digit rewriter                                              *)

RECURSIVE InsertByStart(_, _)
InsertByStart(sorted, r) ==
    IF sorted = <<>> THEN <<r>>
    ELSE IF r.start_index < sorted[1].start_index THEN <<r>> \o sorted
    ELSE <<sorted[1]>> \o InsertByStart(Tail(sorted), r)

RECURSIVE SortByStart(_)
\* numbers_to_replace.sort(key=lambda number: number.start_index), stable
SortByStart(rs) ==
    IF rs = <<>> THEN <<>>
    ELSE InsertByStart(SortByStart(SubSeq(rs, 1, Len(rs) - 1)), rs[Len(rs)])

RECURSIVE RewriteFrom(_, _, _)
\* the for loop of convert_words_to_numbers from tokens[i] on, with the
\* pending spans: the words it appends to results
RewriteFrom(tokens, i, pending) ==
    IF i > Len(tokens) THEN <<>>
    ELSE IF pending = <<>> \/ tokens[i].index < pending[1].start_index
    THEN <<tokens[i].word>> \o RewriteFrom(tokens, i + 1, pending)
    ELSE (IF tokens[i].index = pending[1].start_index
          THEN <<StrOfVal(pending[1].number)>> ELSE <<>>)
         \o RewriteFrom(tokens, i + 1,
                        IF tokens[i].index = pending[1].end_index
                        THEN Tail(pending) ELSE pending)

\* the rewriting of text t from the tuples rs of extract_numbers_with_text
RewriteWith(t, rs) == Join(RewriteFrom(_tokenize(t), 1, SortByStart(rs)))

\* convert_words_to_numbers(text, short_scale=True, ordinals): the text or
\* the fault raised by the extraction
convert_words_to_numbers(t, ords) ==
    LET Rewritten(numbers) ==
            [text |-> IF numbers.fault THEN "" ELSE RewriteWith(t, numbers.results),
             fault |-> numbers.fault]
    IN  Rewritten(extract_numbers_with_text(t, ords))

-----------------------------------------------------------------------------
(* Dates and times (datetime, dateutil.relativedelta)                      *)

IsLeap(y) == (y % 4 = 0 /\ y % 100 # 0) \/ y % 400 = 0

DaysInMonth(y, m) ==
    IF m = 2 THEN (IF IsLeap(y) THEN 29 ELSE 28)
    ELSE IF m \in {4, 6, 9, 11} THEN 30 ELSE 31

RECURSIVE DaysBeforeMonth(_, _)
DaysBeforeMonth(y, m) ==
    IF m = 1 THEN 0 ELSE DaysBeforeMonth(y, m - 1) + DaysInMonth(y, m - 1)

\* date.toordinal(): the 1st of January of year 1 is day 1, a Monday
ToOrdinal(d) ==
    LET p == d.year - 1 IN
    p * 365 + (p \div 4) - (p \div 100) + (p \div 400)
        + DaysBeforeMonth(d.year, d.month) + d.day

\* strftime("%w"): 0 for Sunday .. 6 for Saturday
WeekdayW(d) == ToOrdinal(d) % 7

\* the first day of the month after d's, and the last day of the one before
NextMonthStart(d) ==
    IF d.month < 12 THEN [d EXCEPT !.day = 1, !.month = d.month + 1]
    ELSE [d EXCEPT !.day = 1, !.month = 1, !.year = d.year + 1]

PrevMonthEnd(d) ==
    IF d.month > 1
    THEN [d EXCEPT !.day = DaysInMonth(d.year, d.month - 1), !.month = d.month - 1]
    ELSE [d EXCEPT !.day = 31, !.month = 12, !.year = d.year - 1]

YearLength(y) == IF IsLeap(y) THEN 366 ELSE 365

RECURSIVE AddDays(_, _)
\* d + relativedelta(days=n), a year or a month at a time
AddDays(d, n) ==
    IF n >= 0
    THEN IF d.month = 1 /\ d.day = 1 /\ n >= YearLength(d.year)
         THEN AddDays([d EXCEPT !.year = d.year + 1], n - YearLength(d.year))
         ELSE IF d.day + n <= DaysInMonth(d.year, d.month)
         THEN [d EXCEPT !.day = d.day + n]
         ELSE AddDays(NextMonthStart(d),
                      n - (DaysInMonth(d.year, d.month) - d.day + 1))
    ELSE IF d.month = 12 /\ d.day = 31 /\ 0 - n >= YearLength(d.year)
         THEN AddDays([d EXCEPT !.year = d.year - 1], n + YearLength(d.year))
         ELSE IF d.day + n >= 1 THEN [d EXCEPT !.day = d.day + n]
         ELSE AddDays(PrevMonthEnd(d), n + d.day)

\* d + relativedelta(years=n): the 29th of February becomes the 28th
AddYears(d, n) ==
    LET y == d.year + n IN
    [d EXCEPT !.year = y,
              !.day = IF d.day > DaysInMonth(y, d.month)
                      THEN DaysInMonth(y, d.month) ELSE d.day]

\* d + relativedelta(months=n): the day is cut to the length of the month
AddMonths(d, n) ==
    LET Month(y, m) ==
            [d EXCEPT !.year = y, !.month = m,
                      !.day = IF d.day > DaysInMonth(y, m)
                              THEN DaysInMonth(y, m) ELSE d.day]
        Total(t) == Month(t \div 12, (t % 12) + 1)
    IN  Total(d.year * 12 + (d.month - 1) + n)

\* d + relativedelta(hours=.., minutes=.., seconds=..), as n seconds
AddSeconds(d, n) ==
    LET Clock(e, r) ==
            [e EXCEPT !.hour = r \div 3600, !.minute = (r % 3600) \div 60,
                      !.second = r % 60]
        Total(t) == Clock(AddDays(d, t \div 86400), t % 86400)
    IN  Total(d.hour * 3600 + d.minute * 60 + d.second + n)

\* a < b for two instants
Before(a, b) ==
    LET Earlier(x, y) ==
            \/ x < y
            \/ /\ x = y
               /\ a.hour * 3600 + a.minute * 60 + a.second
                      < b.hour * 3600 + b.minute * 60 + b.second
    IN  Earlier(ToOrdinal(a), ToOrdinal(b))

\* datetime accepts the years 1 .. 9999
YearInRange(d) == d.year >= 1 /\ d.year <= 9999

Midnight(d) == [d EXCEPT !.hour = 0, !.minute = 0, !.second = 0]

-----------------------------------------------------------------------------
(* The date-time extractor: its tables and the cleaning of the text        *)

RECURSIVE Lower(_)
\* s.lower()
Lower(s) ==
    IF s = "" THEN ""
    ELSE LET c == Char(s, 1)
             up == "ABCDEFGHIJKLMNOPQRSTUVWXYZ"
             lo == "abcdefghijklmnopqrstuvwxyz"
         IN  (IF \E i \in 1..Len(up) : Char(up, i) = c
              THEN Char(lo, CHOOSE i \in 1..Len(up) : Char(up, i) = c)
              ELSE c) \o Lower(SubSeq(s, 2, Len(s)))

RECURSIVE StripOrdinals(_, _)
\* the loop over ["rd", "st", "nd", "th"] of clean_string
StripOrdinals(word, suffixes) ==
    IF suffixes = <<>> THEN word
    ELSE StripOrdinals(
             IF Contains(word, suffixes[1]) /\ ~Contains(word, "second")
             THEN Replace(word, suffixes[1], "") ELSE word,
             Tail(suffixes))

RECURSIVE CleanWords(_, _)
\* the loop over wordList of clean_string; word[0] of an empty word raises
\* IndexError
CleanWords(wordList, i) ==
    LET Cleaned(word) ==
            IF word = "" THEN [words |-> wordList, fault |-> "IndexError"]
            ELSE CleanWords(
                     [wordList EXCEPT ![i] =
                         IF FirstIsDigit(word)
                         THEN StripOrdinals(word, <<"rd", "st", "nd", "th">>)
                         ELSE word],
                     i + 1)
    IN  IF i > Len(wordList) THEN [words |-> wordList, fault |-> ""]
        ELSE Cleaned(Replace(wordList[i], "'s", ""))

clean_string(s) ==
    LET s1 == Replace(Replace(Replace(Lower(s), "?", ""), ".", ""), ",", "")
        s2 == Replace(Replace(Replace(s1, " the ", " "), " a ", " "), " an ", " ")
        s3 == Replace(Replace(s2, "o' clock", "o'clock"), "o clock", "o'clock")
        s4 == Replace(Replace(s3, "o ' clock", "o'clock"), "o 'clock", "o'clock")
        s5 == Replace(Replace(s4, "oclock", "o'clock"), "couple", "2")
        s6 == Replace(Replace(s5, "centuries", "century"), "decades", "decade")
        s7 == Replace(s6, "millenniums", "millennium")
    IN  CleanWords(Split(s7), 1)

timeQualifiersAM == {"morning"}

timeQualifiersPM == {"afternoon", "evening", "tonight", "night"}

timeQualifiersList == timeQualifiersAM \cup timeQualifiersPM

markers == {"at", "in", "on", "by", "this", "around", "for", "of", "within"}

days == <<"monday", "tuesday", "wednesday", "thursday", "friday", "saturday",
          "sunday">>

months == <<"january", "february", "march", "april", "may", "june", "july",
            "august", "september", "october", "november", "december">>

monthsShort == <<"jan", "feb", "mar", "apr", "may", "june", "july", "aug",
                 "sept", "oct", "nov", "dec">>

year_multiples == {"decade", "century", "millennium"}

day_multiples == {"weeks", "months", "years"}

InSeq(xs, x) == \E i \in 1..Len(xs) : xs[i] = x

\* xs.index(x), for an x that is in xs
IndexOf(xs, x) ==
    (CHOOSE i \in 1..Len(xs) : xs[i] = x /\ \A j \in 1..(i - 1) : xs[j] # x) - 1

validFollowups ==
    {days[i] : i \in 1..Len(days)} \cup {months[i] : i \in 1..Len(months)}
        \cup {monthsShort[i] : i \in 1..Len(monthsShort)}
        \cup {"today", "tomorrow", "next", "last", "now"}

\* the four neighbours of words[idx] read at the top of both sweeps
Neighbours(ws, idx) ==
    [wordPrevPrev |-> IF idx > 1 THEN ws[idx - 1] ELSE "",
     wordPrev |-> IF idx > 0 THEN ws[idx] ELSE "",
     wordNext |-> IF idx + 1 < Len(ws) THEN ws[idx + 2] ELSE "",
     wordNextNext |-> IF idx + 2 < Len(ws) THEN ws[idx + 3] ELSE ""]

\* words[j] = "" for a Python index j (negative ones count from the end);
\* IndexError outside the list
ClearWord(c, j) ==
    LET n == Len(c.words)
        k == IF j < 0 THEN j + n ELSE j
    IN  IF k < 0 \/ k >= n THEN [c EXCEPT !.fault = "IndexError"]
        ELSE [c EXCEPT !.words[k + 1] = ""]

RECURSIVE ClearRange(_, _, _)
\* for i in range(0, used): words[i + start] = ""
ClearRange(c, from, count) ==
    IF count <= 0 \/ c.fault # "" THEN c
    ELSE ClearRange(ClearWord(c, from), from + 1, count - 1)

\* extractnumber_en(text): the number of extract_number_with_text_en
extractnumber_en(t, ords) == extract_number_with_text_en(t, ords).number

-----------------------------------------------------------------------------
(* The date-time extractor: the date sweep                                 *)

\* the locals of extract_datetime_en before the first sweep.  dayOffset starts
\* as False, which counts as 0 in every sum and comparison made with it;
\* hrAbs and minAbs are None until a time is read.
None == 0 - 2

NoInstant == [year |-> 0, month |-> 0, day |-> 0, hour |-> 0, minute |-> 0,
              second |-> 0]

Locals(ws) ==
    [words |-> ws, found |-> FALSE, daySpecified |-> FALSE, dayOffset |-> 0,
     monthOffset |-> 0, yearOffset |-> 0, fromFlag |-> FALSE, datestr |-> "",
     hasYear |-> FALSE, timeQualifier |-> "", hrOffset |-> 0, minOffset |-> 0,
     secOffset |-> 0, hrAbs |-> None, minAbs |-> None, military |-> FALSE,
     used |-> 0, start |-> 0, isTime |-> TRUE, strHH |-> "", strMM |-> "",
     remainder |-> "", fault |-> "", returned |-> FALSE,
     resultStr |-> "", extractedDate |-> NoInstant]

Fail(c, e) == [c EXCEPT !.fault = e]

Stopped(c) == c.fault # "" \/ c.returned

\* int(x) of a number: the digits before the point
IntOfVal(v) == IF v.n < 0 THEN 0 - ((0 - v.n) \div v.d) ELSE v.n \div v.d

\* multiplier = extractnumber_en(word) if is_numeric(word); or 1; int()
Multiplier(word) ==
    LET Times(m) == IF Truthy(m) THEN IntOfVal(m) ELSE 1
    IN  Times(IF is_numeric(word) THEN extractnumber_en(word, FALSE) ELSE VNone)

\* the factor of a year multiple
YearsOf(w) == IF w = "decade" THEN 10 ELSE IF w = "century" THEN 100 ELSE 1000

\* `wordPrev[0].isdigit()` followed by `int(wordPrev)`
PrevCount(wordPrev) ==
    IF wordPrev = "" THEN [fault |-> "IndexError", digit |-> FALSE, n |-> 0]
    ELSE IF ~FirstIsDigit(wordPrev) THEN [fault |-> "", digit |-> FALSE, n |-> 0]
    ELSE IF ~IsDigitStr(wordPrev) THEN [fault |-> "ValueError", digit |-> TRUE, n |-> 0]
    ELSE [fault |-> "", digit |-> TRUE, n |-> IntOfDigits(wordPrev)]

\* start -= 1; used = 2
WithPrev(c) == [c EXCEPT !.start = @ - 1, !.used = 2]

\* elif word == "day"
DayBranch(c, n) ==
    LET Counted(k) ==
            IF k.fault # "" THEN Fail(c, k.fault)
            ELSE IF k.digit THEN WithPrev([c EXCEPT !.dayOffset = @ + k.n])
            ELSE c
    IN  Counted(PrevCount(n.wordPrev))

\* elif word == "week" and not fromFlag
WeekBranch(c, n) ==
    LET Counted(k) ==
            IF k.fault # "" THEN Fail(c, k.fault)
            ELSE IF k.digit THEN WithPrev([c EXCEPT !.dayOffset = @ + k.n * 7])
            ELSE IF n.wordPrev = "next" THEN WithPrev([c EXCEPT !.dayOffset = 7])
            ELSE IF n.wordPrev = "last" THEN WithPrev([c EXCEPT !.dayOffset = 0 - 7])
            ELSE c
    IN  Counted(PrevCount(n.wordPrev))

\* elif word == "month" and not fromFlag
MonthCountBranch(c, n) ==
    LET Counted(k) ==
            IF k.fault # "" THEN Fail(c, k.fault)
            ELSE IF k.digit THEN WithPrev([c EXCEPT !.monthOffset = k.n])
            ELSE IF n.wordPrev = "next" THEN WithPrev([c EXCEPT !.monthOffset = 1])
            ELSE IF n.wordPrev = "last" THEN WithPrev([c EXCEPT !.monthOffset = 0 - 1])
            ELSE c
    IN  Counted(PrevCount(n.wordPrev))

\* elif word == "year" and not fromFlag
YearBranch(c, n) ==
    LET Counted(k) ==
            IF k.fault # "" THEN Fail(c, k.fault)
            ELSE IF k.digit THEN WithPrev([c EXCEPT !.yearOffset = k.n])
            ELSE IF n.wordPrev = "next" THEN WithPrev([c EXCEPT !.yearOffset = 1])
            ELSE IF n.wordPrev = "last" THEN WithPrev([c EXCEPT !.yearOffset = 0 - 1])
            ELSE c
    IN  Counted(PrevCount(n.wordPrev))

\* (d + 1) - int(today), plus 7 when negative
DaysUntil(dayName, today) ==
    LET Wrapped(t) == IF t < 0 THEN t + 7 ELSE t
    IN  Wrapped((IndexOf(days, dayName) + 1) - today)

\* elif word in days and not fromFlag
WeekdayBranch(c, word, n, today) ==
    LET Offset(t) ==
            IF n.wordPrev = "next"
            THEN [c EXCEPT !.dayOffset = t + 7, !.used = 2, !.start = @ - 1]
            ELSE IF n.wordPrev = "last"
            THEN [c EXCEPT !.dayOffset = t - 7, !.used = 2, !.start = @ - 1]
            ELSE [c EXCEPT !.dayOffset = t, !.used = 1]
    IN  Offset(DaysUntil(word, today))

HeadDigit(w) == w # "" /\ FirstIsDigit(w)

\* elif word in months or word in monthsShort and not fromFlag
MonthBranch(c, word, n) ==
    LET Year(c2, w) ==
            IF HeadDigit(w)
            THEN [c2 EXCEPT !.datestr = @ \o " " \o w,
                            !.used = @ + 1, !.hasYear = TRUE]
            ELSE [c2 EXCEPT !.hasYear = FALSE]
        Named(c1) ==
            IF n.wordPrev # "" /\ ~FirstIsDigit(n.wordPrev) /\ n.wordPrev = "of"
               /\ n.wordPrevPrev = ""
            THEN Fail(c1, "IndexError")
            ELSE IF n.wordPrev # ""
                    /\ (FirstIsDigit(n.wordPrev)
                        \/ (n.wordPrev = "of" /\ FirstIsDigit(n.wordPrevPrev)))
            THEN Year(IF n.wordPrev = "of"
                      THEN [c1 EXCEPT !.datestr = @ \o " " \o n.wordPrevPrev,
                                      !.used = @ + 2, !.start = @ - 2]
                      ELSE [c1 EXCEPT !.datestr = @ \o " " \o n.wordPrev,
                                      !.used = @ + 1, !.start = @ - 1],
                      n.wordNext)
            ELSE IF HeadDigit(n.wordNext)
            THEN Year([c1 EXCEPT !.datestr = @ \o " " \o n.wordNext,
                                 !.used = @ + 1],
                      n.wordNextNext)
            ELSE c1
        Month(m) == Named([c EXCEPT !.used = @ + 1, !.datestr = months[m + 1]])
    IN  Month(IF InSeq(months, word) THEN IndexOf(months, word)
              ELSE IndexOf(monthsShort, word))

\* the if/elif chain of the first sweep for words[idx], after rstrip('s')
DateBranch(c, idx, word, n, now) ==
    IF word = "now" /\ c.datestr = ""
    THEN [c EXCEPT !.returned = TRUE,
                   !.resultStr = Join(Split(Join(SubSeq(c.words, idx + 2,
                                                        Len(c.words))))),
                   !.extractedDate = now]
    ELSE IF n.wordNext \in year_multiples
    THEN [c EXCEPT !.used = @ + 2,
                   !.yearOffset = Multiplier(word) * YearsOf(n.wordNext)]
    ELSE IF word = "2" /\ n.wordNext = "of" /\ n.wordNextNext \in year_multiples
    THEN [c EXCEPT !.used = @ + 3, !.yearOffset = 2 * YearsOf(n.wordNextNext)]
    ELSE IF word = "2" /\ n.wordNext = "of" /\ n.wordNextNext \in day_multiples
    THEN IF n.wordNextNext = "years"
         THEN [c EXCEPT !.used = @ + 3, !.yearOffset = 2]
         ELSE IF n.wordNextNext = "months"
         THEN [c EXCEPT !.used = @ + 3, !.monthOffset = 2]
         ELSE [c EXCEPT !.used = @ + 3, !.dayOffset = 2 * 7]
    ELSE IF word \in timeQualifiersList THEN [c EXCEPT !.timeQualifier = word]
    ELSE IF word = "today" /\ ~c.fromFlag
    THEN [c EXCEPT !.dayOffset = 0, !.used = @ + 1]
    ELSE IF word = "tomorrow" /\ ~c.fromFlag
    THEN [c EXCEPT !.dayOffset = 1, !.used = @ + 1]
    ELSE IF word = "day" /\ n.wordNext = "after" /\ n.wordNextNext = "tomorrow"
            /\ ~c.fromFlag /\ n.wordPrev = ""
    THEN Fail(c, "IndexError")
    ELSE IF word = "day" /\ n.wordNext = "after" /\ n.wordNextNext = "tomorrow"
            /\ ~c.fromFlag /\ ~FirstIsDigit(n.wordPrev)
    THEN IF n.wordPrev = "the"
         THEN [c EXCEPT !.dayOffset = 2, !.used = 4, !.start = @ - 1]
         ELSE [c EXCEPT !.dayOffset = 2, !.used = 3]
    ELSE IF word = "day" THEN DayBranch(c, n)
    ELSE IF word = "week" /\ ~c.fromFlag THEN WeekBranch(c, n)
    ELSE IF word = "month" /\ ~c.fromFlag THEN MonthCountBranch(c, n)
    ELSE IF word = "year" /\ ~c.fromFlag THEN YearBranch(c, n)
    ELSE IF InSeq(days, word) /\ ~c.fromFlag
    THEN WeekdayBranch(c, word, n, WeekdayW(now))
    ELSE IF InSeq(months, word) \/ (InSeq(monthsShort, word) /\ ~c.fromFlag)
    THEN MonthBranch(c, word, n)
    ELSE c

\* if (word == "from" or word == "after") and wordNext in validFollowups
FromBranch(c, word, n, today) ==
    LET After(c1, t) ==
            IF n.wordNext = "next"
            THEN [c1 EXCEPT !.dayOffset = @ + t + 7, !.used = 4,
                            !.start = @ - 1]
            ELSE IF n.wordNext = "last"
            THEN [c1 EXCEPT !.dayOffset = @ + t - 7, !.used = 4,
                            !.start = @ - 1]
            ELSE [c1 EXCEPT !.dayOffset = @ + t, !.used = 3]
        From(c1) ==
            IF n.wordNext = "tomorrow" THEN [c1 EXCEPT !.dayOffset = @ + 1]
            ELSE IF InSeq(days, n.wordNext)
            THEN [c1 EXCEPT !.dayOffset = @ + DaysUntil(n.wordNext, today)]
            ELSE IF n.wordNextNext # "" /\ InSeq(days, n.wordNextNext)
            THEN After(c1, (IndexOf(days, n.wordNextNext) + 1) - today)
            ELSE c1
    IN  IF ~(word \in {"from", "after"} /\ n.wordNext \in validFollowups) THEN c
        ELSE From([c EXCEPT !.used = 2, !.fromFlag = TRUE])

\* if used > 0: the blanking of the consumed words and of a marker before
\* them
DateConsume(c) ==
    LET Found(c3) ==
            IF c3.fault # "" THEN c3
            ELSE [c3 EXCEPT !.found = TRUE, !.daySpecified = TRUE]
        Marker(c1, c2) ==
            Found(IF c2.fault = "" /\ c1.start - 1 >= 0
                     /\ c2.words[c1.start] \in markers
                  THEN ClearWord(c2, c1.start - 1) ELSE c2)
        Cleared(c1) == Marker(c1, ClearRange(c1, c1.start, c1.used))
    IN  IF c.used <= 0 THEN c
        ELSE Cleared(IF c.start - 1 > 0 /\ c.words[c.start] = "this"
                     THEN [c EXCEPT !.start = @ - 1, !.used = @ + 1] ELSE c)

\* one pass of the first loop over the words
DateSweepBody(c, idx, now) ==
    LET Consumed(c2) == IF Stopped(c2) THEN c2 ELSE DateConsume(c2)
        From(c1, word, n) ==
            Consumed(IF Stopped(c1) THEN c1
                     ELSE FromBranch(c1, word, n, WeekdayW(now)))
        Word(word, n) ==
            From(DateBranch([c EXCEPT !.used = 0, !.start = idx], idx, word, n, now),
                 word, n)
    IN  IF c.words[idx + 1] = "" THEN c
        ELSE Word(RStrip(c.words[idx + 1], "s"), Neighbours(c.words, idx))

-----------------------------------------------------------------------------
(* The date-time extractor: the time sweep                                 *)

RECURSIVE ColonParse(_, _, _, _, _)
\* the character loop over a word with a colon.  The `i -= 1` of the loop
\* body is undone by the next pass of `for i in range(length)`, so the
\* character that ends the digits is skipped.
ColonParse(word, i, stage, strHH, strMM) ==
    IF i > Len(word) THEN [strHH |-> strHH, strMM |-> strMM, remainder |-> ""]
    ELSE IF stage = 0
    THEN IF IsDigitChar(Char(word, i))
         THEN ColonParse(word, i + 1, 0, strHH \o Char(word, i), strMM)
         ELSE IF Char(word, i) = ":" THEN ColonParse(word, i + 1, 1, strHH, strMM)
         ELSE ColonParse(word, i + 1, 2, strHH, strMM)
    ELSE IF stage = 1
    THEN IF IsDigitChar(Char(word, i))
         THEN ColonParse(word, i + 1, 1, strHH, strMM \o Char(word, i))
         ELSE ColonParse(word, i + 1, 2, strHH, strMM)
    ELSE [strHH |-> strHH, strMM |-> strMM,
          remainder |-> Replace(SubSeq(word, i, Len(word)), ".", "")]

RECURSIVE DigitsOf(_)
\* strNum: the digits of the word
DigitsOf(w) ==
    IF w = "" THEN ""
    ELSE (IF IsDigitChar(Char(w, 1)) THEN Char(w, 1) ELSE "")
             \o DigitsOf(SubSeq(w, 2, Len(w)))

RECURSIVE NonDigitsOf(_)
\* remainder: the other characters of the word
NonDigitsOf(w) ==
    IF w = "" THEN ""
    ELSE (IF IsDigitChar(Char(w, 1)) THEN "" ELSE Char(w, 1))
             \o NonDigitsOf(SubSeq(w, 2, Len(w)))

\* the word after the next two, "" past the end
WordAt3(c, idx) == IF idx + 3 < Len(c.words) THEN c.words[idx + 4] ELSE ""

\* if remainder == "": the look-ahead of a colon time for am / pm
ColonQualifier(c, idx, n) ==
    LET nextWord == Replace(n.wordNext, ".", "") IN
    IF nextWord \in {"am", "pm"}
    THEN [c EXCEPT !.remainder = nextWord, !.used = @ + 1]
    ELSE IF nextWord = "tonight"
    THEN [c EXCEPT !.remainder = "pm", !.used = @ + 1]
    ELSE IF n.wordNext = "in" /\ n.wordNextNext = "the" /\ idx + 3 >= Len(c.words)
    THEN Fail(c, "IndexError")
    ELSE IF n.wordNext = "in" /\ n.wordNextNext = "the"
            /\ c.words[idx + 4] = "morning"
    THEN [c EXCEPT !.remainder = "am", !.used = @ + 3]
    ELSE IF n.wordNext = "in" /\ n.wordNextNext = "the"
            /\ c.words[idx + 4] \in {"afternoon", "evening"}
    THEN [c EXCEPT !.remainder = "pm", !.used = @ + 3]
    ELSE IF n.wordNext = "in" /\ n.wordNextNext = "morning"
    THEN [c EXCEPT !.remainder = "am", !.used = @ + 2]
    ELSE IF n.wordNext = "in" /\ n.wordNextNext \in {"afternoon", "evening"}
    THEN [c EXCEPT !.remainder = "pm", !.used = @ + 2]
    ELSE IF n.wordNext = "this" /\ n.wordNextNext = "morning"
    THEN [c EXCEPT !.remainder = "am", !.used = 2, !.daySpecified = TRUE]
    ELSE IF n.wordNext = "this" /\ n.wordNextNext \in {"afternoon", "evening"}
    THEN [c EXCEPT !.remainder = "pm", !.used = 2, !.daySpecified = TRUE]
    ELSE IF n.wordNext = "at" /\ n.wordNextNext = "night"
    THEN [c EXCEPT !.remainder = IF c.strHH # "" /\ IntOfDigits(c.strHH) > 5
                                 THEN "pm" ELSE "am",
                   !.used = @ + 2]
    ELSE IF c.timeQualifier # ""
    THEN [c EXCEPT !.military = TRUE,
                   !.strHH = IF c.strHH # "" /\ IntOfDigits(c.strHH) <= 12
                                /\ c.timeQualifier \in timeQualifiersPM
                             THEN @ \o StrOfInt(IntOfDigits(c.strHH) + 12)
                             ELSE @]
    ELSE c

\* if ':' in word
ColonTime(c, idx, word, n) ==
    LET p == ColonParse(word, 1, 0, "", "")
        c1 == [c EXCEPT !.strHH = p.strHH, !.strMM = p.strMM,
                        !.remainder = p.remainder]
    IN  IF p.remainder = "" THEN ColonQualifier(c1, idx, n) ELSE c1

IsHours(w) == w \in {"hours", "hour"}

IsMinutes(w) == w \in {"minutes", "minute"}

IsSeconds(w) == w \in {"seconds", "second"}

\* hrAbs = -1; minAbs = -1; used = 2; isTime = False
Relative(c) ==
    [c EXCEPT !.used = 2, !.isTime = FALSE, !.hrAbs = 0 - 1, !.minAbs = 0 - 1]

\* the branch for <number> alone, before o'clock or before "in [the]"
BareHour(c, idx, strNum, n) ==
    LET c1 == [c EXCEPT !.strHH = strNum, !.strMM = "00",
                        !.used = IF n.wordNext = "o'clock" THEN @ + 1 ELSE @]
        c2 == IF n.wordNext = "in" \/ n.wordNextNext = "in"
              THEN LET w3 == WordAt3(c, idx)
                       c3 == [c1 EXCEPT !.used =
                                 @ + (IF n.wordNext = "in" THEN 1 ELSE 2)]
                   IN  IF n.wordNextNext # ""
                          /\ (Contains(c.timeQualifier, n.wordNextNext)
                              \/ Contains(c.timeQualifier, w3))
                       THEN LET c4 == IF n.wordNextNext \in timeQualifiersPM
                                         \/ w3 \in timeQualifiersPM
                                      THEN [c3 EXCEPT !.remainder = "pm",
                                                      !.used = @ + 1]
                                      ELSE c3
                            IN  IF n.wordNextNext \in timeQualifiersAM
                                   \/ w3 \in timeQualifiersAM
                                THEN [c4 EXCEPT !.remainder = "am", !.used = @ + 1]
                                ELSE c4
                       ELSE c3
              ELSE c1
    IN  IF c.timeQualifier # ""
        THEN [c2 EXCEPT !.used = @ + 1, !.military = TRUE]
        ELSE c2

\* the word has no colon: "5 hours", "10 minutes", "3pm", "0800", "3"
PlainNumber(c, idx, word, n) ==
    LET strNum == DigitsOf(word)
        own == NonDigitsOf(word)
        remainder == IF own = "" THEN Strip(Replace(n.wordNext, ".", "")) ELSE own
        num == IntOfDigits(strNum)
        c1 == [c EXCEPT !.remainder = remainder]
    IN  IF remainder = "pm" \/ n.wordNext = "pm" \/ remainder = "p.m."
           \/ n.wordNext = "p.m."
        THEN [c1 EXCEPT !.strHH = strNum, !.remainder = "pm", !.used = 1]
        ELSE IF remainder = "am" \/ n.wordNext = "am" \/ remainder = "a.m."
                \/ n.wordNext = "a.m."
        THEN [c1 EXCEPT !.strHH = strNum, !.remainder = "am", !.used = 1]
        ELSE IF num > 100 /\ n.wordPrev \in {"o", "oh"}
        THEN [c1 EXCEPT !.strHH = StrOfInt(num \div 100),
                        !.strMM = StrOfInt(num % 100), !.military = TRUE,
                        !.used = IF n.wordNext = "hours" THEN @ + 1 ELSE @]
        ELSE IF (IsHours(n.wordNext) \/ IsHours(remainder))
                /\ Char(word, 1) # "0" /\ (num < 100 \/ num > 2400)
        THEN Relative([c1 EXCEPT !.hrOffset = num])
        ELSE IF IsMinutes(n.wordNext) \/ IsMinutes(remainder)
        THEN Relative([c1 EXCEPT !.minOffset = num])
        ELSE IF IsSeconds(n.wordNext) \/ IsSeconds(remainder)
        THEN Relative([c1 EXCEPT !.secOffset = num])
        ELSE IF num > 100
        THEN [c1 EXCEPT !.strHH = StrOfInt(num \div 100),
                        !.strMM = StrOfInt(num % 100), !.military = TRUE,
                        !.used = IF IsHours(n.wordNext) \/ IsHours(remainder)
                                 THEN @ + 1 ELSE @]
        ELSE IF HeadDigit(n.wordNext)
        THEN [c1 EXCEPT !.strHH = strNum, !.strMM = n.wordNext,
                        !.military = TRUE,
                        !.used = IF IsHours(n.wordNextNext) \/ IsHours(remainder)
                                 THEN @ + 2 ELSE @ + 1]
        ELSE IF n.wordNext = "" \/ n.wordNext = "o'clock"
                \/ (n.wordNext = "in"
                    /\ (n.wordNextNext = "the"
                        \/ n.wordNextNext = c.timeQualifier))
        THEN BareHour(c1, idx, strNum, n)
        ELSE [c1 EXCEPT !.isTime = FALSE]

WrongAmbiguousTime(HH, hour) ==
    IF hour <= HH THEN [HH |-> HH, dayOffset |-> 0]
    ELSE IF hour < HH + 12 THEN [HH |-> HH + 12, dayOffset |-> 0]
    ELSE [HH |-> HH, dayOffset |-> 1]
\* an hour with no am / pm: this evening or the next morning, by whether it
\* has passed; the hour to take and what to add to dayOffset
AmbiguousTime(HH, hour) ==
    IF hour < HH THEN [HH |-> HH, dayOffset |-> 0]
    ELSE IF hour < HH + 12 THEN [HH |-> HH + 12, dayOffset |-> 0]
    ELSE [HH |-> HH, dayOffset |-> 1]

\* from `HH = int(strHH) if strHH else 0` to `if isTime:`
ResolveHour(c, now) ==
    IF c.strMM # "" /\ ~IsDigitStr(c.strMM) THEN Fail(c, "ValueError")
    ELSE
    LET HH0 == IF c.strHH # "" THEN IntOfDigits(c.strHH) ELSE 0
        MM == IF c.strMM # "" THEN IntOfDigits(c.strMM) ELSE 0
        HH1 == IF c.remainder = "pm" /\ HH0 < 12 THEN HH0 + 12 ELSE HH0
        HH2 == IF c.remainder = "am" /\ HH1 >= 12 THEN HH1 - 12 ELSE HH1
        ambiguous ==
            /\ ~c.military
            /\ c.remainder \notin {"am", "pm", "hours", "minutes", "second",
                                   "seconds", "hour", "minute"}
            /\ (~c.daySpecified \/ c.dayOffset < 1)
        a == IF ambiguous THEN AmbiguousTime(HH2, now.hour)
             ELSE [HH |-> HH2, dayOffset |-> 0]
        HH3 == a.HH
        c1 == [c EXCEPT !.dayOffset = @ + a.dayOffset]
        HH == IF c.timeQualifier \in timeQualifiersPM /\ HH3 < 12
              THEN HH3 + 12 ELSE HH3
        c2 == IF HH > 24 \/ MM > 59
              THEN [c1 EXCEPT !.isTime = FALSE, !.used = 0] ELSE c1
    IN  IF c2.isTime
        THEN [c2 EXCEPT !.hrAbs = HH, !.minAbs = MM, !.used = @ + 1]
        ELSE c2

\* elif word[0].isdigit()
DigitWord(c, idx, word, n, now) ==
    LET c0 == [c EXCEPT !.isTime = TRUE, !.strHH = "", !.strMM = "",
                        !.remainder = ""]
        c1 == IF Contains(word, ":") THEN ColonTime(c0, idx, word, n)
              ELSE PlainNumber(c0, idx, word, n)
    IN  IF c1.fault # "" THEN c1 ELSE ResolveHour(c1, now)

\* elif word == "hour" and (wordPrev in markers or wordPrevPrev in markers)
HourPhrase(c, idx, n) ==
    LET c1 == IF n.wordPrev = "half" THEN [c EXCEPT !.minOffset = 30]
              ELSE IF n.wordPrev = "quarter" THEN [c EXCEPT !.minOffset = 15]
              ELSE IF n.wordPrevPrev = "quarter"
              THEN ClearWord(
                       IF idx > 2 /\ c.words[idx - 2] \in markers
                       THEN ClearWord([c EXCEPT !.minOffset = 15], idx - 3)
                       ELSE [c EXCEPT !.minOffset = 15],
                       idx - 2)
              ELSE [c EXCEPT !.hrOffset = 1]
        c2 == IF n.wordPrevPrev \in markers
              THEN [ClearWord(c1, idx - 2) EXCEPT
                       !.daySpecified = @ \/ n.wordPrevPrev = "this"]
              ELSE c1
        c3 == ClearWord(c2, idx - 1)
    IN  [c3 EXCEPT !.used = @ + 1, !.hrAbs = 0 - 1, !.minAbs = 0 - 1]

\* the if/elif chain of the second sweep for words[idx]
TimeBranch(c, idx, word, n, now) ==
    IF word = "noon" THEN [c EXCEPT !.hrAbs = 12, !.used = @ + 1]
    ELSE IF word = "midnight" THEN [c EXCEPT !.hrAbs = 0, !.used = @ + 1]
    ELSE IF word = "morning"
    THEN [c EXCEPT !.hrAbs = IF @ = None THEN 8 ELSE @, !.used = @ + 1]
    ELSE IF word = "afternoon"
    THEN [c EXCEPT !.hrAbs = IF @ = None THEN 15 ELSE @, !.used = @ + 1]
    ELSE IF word = "evening"
    THEN [c EXCEPT !.hrAbs = IF @ = None THEN 19 ELSE @, !.used = @ + 1]
    ELSE IF word = "2" /\ n.wordNext = "of"
            /\ n.wordNextNext \in {"hours", "minutes", "seconds"}
    THEN IF n.wordNextNext = "hours"
         THEN [c EXCEPT !.used = @ + 3, !.hrOffset = 2]
         ELSE IF n.wordNextNext = "minutes"
         THEN [c EXCEPT !.used = @ + 3, !.minOffset = 2]
         ELSE [c EXCEPT !.used = @ + 3, !.secOffset = 2]
    ELSE IF word = "hour" /\ (n.wordPrev \in markers \/ n.wordPrevPrev \in markers)
    THEN HourPhrase(c, idx, n)
    ELSE IF word = "minute" /\ n.wordPrev = "in"
    THEN [ClearWord(c, idx - 1) EXCEPT !.minOffset = 1, !.used = @ + 1]
    ELSE IF word = "second" /\ n.wordPrev = "in"
    THEN [ClearWord(c, idx - 1) EXCEPT !.secOffset = 1, !.used = @ + 1]
    ELSE IF FirstIsDigit(word) THEN DigitWord(c, idx, word, n, now)
    ELSE c

RECURSIVE ClearUpTo(_, _, _)
\* for i in range(used): if idx + i >= len(words): break; words[idx + i] = ""
ClearUpTo(c, from, count) ==
    IF count <= 0 \/ from >= Len(c.words) THEN c
    ELSE ClearUpTo(ClearWord(c, from), from + 1, count - 1)

\* if used > 0: the blanking of the consumed words and of the words before
\* them; idx is the loop's index, lowered by one after "early" / "late"
TimeConsume(c, idx, n) ==
    IF c.used <= 0 THEN c
    ELSE LET c1 == ClearUpTo(c, idx, c.used)
             c2 == IF n.wordPrev \in {"o", "oh"}
                   THEN IF InSeq(c1.words, n.wordPrev)
                        THEN ClearWord(c1, IndexOf(c1.words, n.wordPrev))
                        ELSE Fail(c1, "ValueError")
                   ELSE c1
             c3 == IF n.wordPrev = "early"
                   THEN [ClearWord(c2, idx - 1) EXCEPT !.hrOffset = 0 - 1]
                   ELSE IF n.wordPrev = "late"
                   THEN [ClearWord(c2, idx - 1) EXCEPT !.hrOffset = 1]
                   ELSE c2
             i == IF n.wordPrev \in {"early", "late"} THEN idx - 1 ELSE idx
             c4 == IF i > 0 /\ n.wordPrev \in markers
                   THEN [ClearWord(c3, i - 1) EXCEPT
                            !.daySpecified = @ \/ n.wordPrev = "this"]
                   ELSE c3
             c5 == IF i > 1 /\ n.wordPrevPrev \in markers
                   THEN [ClearWord(c4, i - 2) EXCEPT
                            !.daySpecified = @ \/ n.wordPrevPrev = "this"]
                   ELSE c4
         IN  IF c5.fault # "" THEN c5 ELSE [c5 EXCEPT !.found = TRUE]

\* one pass of the second loop over the words
TimeSweepBody(c, idx, now) ==
    IF c.words[idx + 1] = "" THEN c
    ELSE LET n == Neighbours(c.words, idx)
             c1 == TimeBranch([c EXCEPT !.used = 0], idx, c.words[idx + 1], n,
                              now)
         IN  IF c1.fault # "" THEN c1 ELSE TimeConsume(c1, idx, n)

-----------------------------------------------------------------------------
(* The date-time extractor: the result                                     *)

\* the nested function date_found(); its test `dayOffset is True` is never
\* true
date_found(c) ==
    \/ c.found
    \/ c.datestr # "" \/ c.yearOffset # 0 \/ c.monthOffset # 0
    \/ c.hrOffset # 0 \/ (c.hrAbs # None /\ c.hrAbs # 0) \/ c.minOffset # 0
    \/ (c.minAbs # None /\ c.minAbs # 0) \/ c.secOffset # 0

\* bool(date_found): `if not date_found:` tests the function, which it does
\* not call, and a function is true
date_found_object == TRUE

\* %d of strptime: one or two digits, 1 .. 31
IsDayField(w) ==
    /\ IsDigitStr(w)
    /\ Len(w) <= 2
    /\ IntOfDigits(w) >= 1
    /\ IntOfDigits(w) <= 31

\* datetime.strptime(datestr, "%B %d"), and in its except clause
\* datetime.strptime(datestr, "%B %d %Y"); ok is FALSE when the second one
\* raises ValueError.  The first format gives the year 1900.
strptime(datestr) ==
    LET none == [ok |-> FALSE, year |-> 0, month |-> 0, day |-> 0]
        Fields(f, m) ==
            IF m = 0 THEN none
            ELSE IF Len(f) = 2 /\ IsDayField(f[2])
                    /\ IntOfDigits(f[2]) <= DaysInMonth(1900, m)
            THEN [ok |-> TRUE, year |-> 1900, month |-> m, day |-> IntOfDigits(f[2])]
            ELSE IF Len(f) = 3 /\ IsDayField(f[2]) /\ IsDigitStr(f[3]) /\ Len(f[3]) = 4
                    /\ IntOfDigits(f[3]) >= 1
                    /\ IntOfDigits(f[2]) <= DaysInMonth(IntOfDigits(f[3]), m)
            THEN [ok |-> TRUE, year |-> IntOfDigits(f[3]), month |-> m,
                  day |-> IntOfDigits(f[2])]
            ELSE none
        Month(f) ==
            Fields(f, IF Len(f) >= 1 /\ InSeq(months, f[1])
                      THEN IndexOf(months, f[1]) + 1 ELSE 0)
    IN  Month(Split(datestr))

\* the default_time argument: the callers pass None
default_time == [present |-> FALSE, hour |-> 0, minute |-> 0]

\* if datestr != "": ... else: ...
BaseDate(c, now) ==
    LET Dated(temp, today0, thisYear) ==
            IF ~temp.ok THEN Fail(c, "ValueError")
            ELSE IF ~c.hasYear
            THEN [c EXCEPT !.extractedDate =
                     IF Before(today0, thisYear) THEN thisYear
                     ELSE [thisYear EXCEPT !.year = now.year + 1]]
            ELSE [c EXCEPT !.extractedDate =
                     [today0 EXCEPT !.year = temp.year, !.month = temp.month,
                                    !.day = temp.day]]
        Parsed(temp) ==
            Dated(temp, Midnight(now),
                  [Midnight(now) EXCEPT !.month = temp.month, !.day = temp.day])
    IN  IF c.datestr # "" THEN Parsed(strptime(c.datestr))
        ELSE IF c.hrOffset = 0 /\ c.minOffset = 0 /\ c.secOffset = 0
        THEN [c EXCEPT !.extractedDate = Midnight(now)]
        ELSE [c EXCEPT !.extractedDate = now]

\* the relativedelta additions of the year, month and day offsets
AddOffsets(c) ==
    LET Days(d1, d2) ==
            IF ~YearInRange(d1) \/ ~YearInRange(d2) THEN Fail(c, "ValueError")
            ELSE [c EXCEPT !.extractedDate =
                     IF c.dayOffset # 0 THEN AddDays(d2, c.dayOffset) ELSE d2]
        Months(d1) ==
            Days(d1, IF c.monthOffset # 0 THEN AddMonths(d1, c.monthOffset) ELSE d1)
    IN  Months(IF c.yearOffset # 0 THEN AddYears(c.extractedDate, c.yearOffset)
               ELSE c.extractedDate)

\* if hrAbs != -1 and minAbs != -1: the absolute time, and the day after when
\* it has passed
AddAbsolute(c, now) ==
    LET Passed(hrAbs, minAbs, d) ==
            [c EXCEPT !.hrAbs = hrAbs, !.minAbs = minAbs,
                      !.extractedDate =
                          IF (hrAbs # 0 \/ minAbs # 0) /\ c.datestr = ""
                             /\ ~c.daySpecified /\ Before(d, now)
                          THEN AddDays(d, 1) ELSE d]
        Time(hrAbs, minAbs) ==
            Passed(hrAbs, minAbs,
                   AddSeconds(c.extractedDate, hrAbs * 3600 + minAbs * 60))
        Default(useDefault) ==
            Time(IF useDefault THEN default_time.hour
                 ELSE IF c.hrAbs = None THEN 0 ELSE c.hrAbs,
                 IF useDefault THEN default_time.minute
                 ELSE IF c.minAbs = None THEN 0 ELSE c.minAbs)
    IN  IF c.hrAbs = 0 - 1 \/ c.minAbs = 0 - 1 THEN c
        ELSE Default(c.hrAbs = None /\ c.minAbs = None /\ default_time.present)

\* the relativedelta additions of the hour, minute and second offsets
AddRelative(c) ==
    [c EXCEPT !.extractedDate =
        AddSeconds(@, c.hrOffset * 3600 + c.minOffset * 60 + c.secOffset)]

RECURSIVE AndCleanup(_, _)
\* the last loop: an "and" between two blanked words is blanked; words[idx - 1]
\* of the first word is the last word, words[idx + 1] of the last word raises
\* IndexError
AndCleanup(c, idx) ==
    IF idx >= Len(c.words) \/ c.fault # "" THEN c
    ELSE IF c.words[idx + 1] = "and"
            /\ c.words[IF idx = 0 THEN Len(c.words) ELSE idx] = ""
    THEN IF idx + 1 >= Len(c.words) THEN Fail(c, "IndexError")
         ELSE IF c.words[idx + 2] = "" THEN AndCleanup(ClearWord(c, idx), idx + 1)
         ELSE AndCleanup(c, idx + 1)
    ELSE AndCleanup(c, idx + 1)

\* from `if dayOffset is False:` to the return
Compose(c, now) ==
    LET Returned(c4) ==
            IF c4.fault # "" THEN c4
            ELSE [c4 EXCEPT !.returned = TRUE,
                            !.resultStr = Join(Split(Join(c4.words)))]
        Cleaned(c3) == Returned(IF c3.fault # "" THEN c3 ELSE AndCleanup(c3, 0))
        Timed(c2) ==
            Cleaned(IF c2.fault # "" THEN c2 ELSE AddRelative(AddAbsolute(c2, now)))
        Dated(c1) == Timed(IF c1.fault # "" THEN c1 ELSE AddOffsets(c1))
    IN  Dated(BaseDate(c, now))

-----------------------------------------------------------------------------
(* The number entry points as a state machine: convert_words_to_numbers    *)
(* applied to the text, then to its own result.                            *)

MaxWords == 3

NumVocab == {"zero", "one", "twenty", "hundred", "half", "and", "point",
             "minus", "a", "x", "2"}

MaxFracWords == 4

FracVocab == {"two", "and", "a", "half", "x"}

\* the texts of at most n words over the vocabulary v
TextsOver(v, n) == {Join(ws) : ws \in UNION {[1..m -> v] : m \in 0..n}}

NoTuple == [number |-> VNone, string |-> "", start_index |-> Absent,
            end_index |-> Absent, fault |-> FALSE]

\* convert_words_to_numbers(t), ordinals left at its default
NumStart(t) ==
    /\ pc = "numbers1"
    /\ text = t
    /\ ordinals = FALSE
    /\ buf = text
    /\ results = <<>>
    /\ last = NoTuple
    /\ out1 = ""
    /\ out2 = ""
    /\ ret = "none"
    /\ unit = 0
    /\ pieces = <<>>
    /\ duration = VNone
    /\ dt = Locals(<<>>)
    /\ index = 0
    /\ dateNow = NoInstant
    /\ lexicon = ModuleTables
    /\ calls = <<>>

InitNum == \E t \in TextsOver(NumVocab, MaxWords) : NumStart(t)

\* longer texts over the words of the "<number> and <fraction>" form
InitFraction == \E t \in TextsOver(FracVocab, MaxFracWords) : NumStart(t)

\* one pass of the while loop of extract_numbers_with_text
ExtractNext ==
    /\ pc \in {"numbers1", "numbers2"}
    /\ \E r \in {extract_number_with_text_en(buf, ordinals)} :
       /\ last' = r
       /\ IF r.fault
          THEN pc' = "fault" /\ ret' = "ValueError" /\ UNCHANGED <<buf, results>>
          ELSE IF ~Truthy(r.number)
          THEN /\ pc' = (IF pc = "numbers1" THEN "rewrite1" ELSE "rewrite2")
               /\ UNCHANGED <<buf, results, ret>>
          ELSE IF r.start_index = Absent
          THEN /\ pc' = "fault" /\ ret' = "TypeError"
               /\ results' = Append(results, r)
               /\ UNCHANGED buf
          ELSE /\ results' = Append(results, r)
               /\ buf' = MaskText(buf, r.start_index, r.end_index)
               /\ UNCHANGED <<pc, ret>>
    /\ UNCHANGED <<lexicon, calls>>
    /\ UNCHANGED <<text, ordinals, out1, out2, unit, pieces, duration, dt, index,
                   dateNow>>

\* the sort and the rewriting loop of convert_words_to_numbers; the second
\* call starts from the result of the first
Rewrite ==
    /\ pc \in {"rewrite1", "rewrite2"}
    /\ IF pc = "rewrite1"
       THEN /\ out1' = RewriteWith(text, results)
            /\ buf' = out1'
            /\ results' = <<>>
            /\ pc' = "numbers2"
            /\ UNCHANGED <<out2, ret>>
       ELSE /\ out2' = RewriteWith(out1, results)
            /\ pc' = "done"
            /\ ret' = out2'
            /\ UNCHANGED <<out1, buf, results>>
    /\ UNCHANGED <<lexicon, calls>>
    /\ UNCHANGED <<text, ordinals, last, unit, pieces, duration, dt, index, dateNow>>

NextNum == ExtractNext \/ Rewrite

Spec == InitNum /\ [][NextNum]_vars

SpecFraction == InitFraction /\ [][NextNum]_vars

MaxCardinalWords == 5

\* the cardinal phrases over a few ones-words, tens-words and the scale
\* words, each with the integer it denotes
Ones == {"two", "five", "six"}

Tens == {"twenty", "sixty"}

Phrase(ws, v) == [words |-> ws, value |-> v]

\* a phrase followed by a scale word, and by a smaller phrase
Scaled(a, scale) == Phrase(Append(a.words, scale), a.value * SHORT_SCALE_EN[scale])

Then(a, b) == Phrase(a.words \o b.words, a.value + b.value)

Short(ps) == {p \in ps : Len(p.words) <= MaxCardinalWords}

BelowHundred ==
    LET Units == {Phrase(<<o>>, NUM_STRING_EN[o]) : o \in Ones}
        Decades == {Phrase(<<t>>, NUM_STRING_EN[t]) : t \in Tens}
    IN  Units \cup Decades \cup {Then(t, o) : t \in Decades, o \in Units}

BelowThousand ==
    LET Hundreds == {Scaled(Phrase(<<o>>, NUM_STRING_EN[o]), "hundred") : o \in Ones}
    IN  BelowHundred \cup Hundreds \cup {Then(h, b) : h \in Hundreds, b \in BelowHundred}

BelowMillion ==
    LET Thousands == Short({Scaled(a, "thousand") : a \in BelowThousand})
    IN  BelowThousand \cup Thousands
            \cup Short({Then(t, b) : t \in Thousands, b \in BelowThousand})

CardinalPhrases ==
    LET Millions == Short({Scaled(a, "million") : a \in BelowThousand})
    IN  Short(BelowMillion \cup Millions
                  \cup {Then(m, b) : m \in Millions, b \in BelowMillion})

InitCardinal == \E p \in CardinalPhrases : NumStart(Join(p.words))

SpecCardinal == InitCardinal /\ [][NextNum]_vars

\* a cardinal phrase directly after a negative marker
InitNegative ==
    \E m \in _NEGATIVES : \E p \in CardinalPhrases :
        NumStart(m \o " " \o Join(p.words))

SpecNegative == InitNegative /\ [][NextNum]_vars

\* the entry point has not returned or raised: a step of NextNum is enabled
Running == pc \notin {"done", "fault"}

\* the calls run on: WF_vars(NextNum), its ENABLED written as Running
SpecNumbersRun ==
    InitNum /\ [][NextNum]_vars /\ (<>[]Running => []<><<NextNum>>_vars)

-----------------------------------------------------------------------------
(* Two calls of extract_numbers_with_text whose passes interleave          *)

MaxCallWords == 2

CallVocab == {"one", "twenty", "hundreds", "x"}

\* the locals of a call that has not yet made a pass
NewCall(t) == [text |-> t, buf |-> t, results |-> <<>>, pc |-> "loop"]

\* the table t with the plural of every key added
WithPlurals(t) ==
    [w \in DOMAIN t \cup {k \o "s" : k \in DOMAIN t} |->
        IF w \in DOMAIN t THEN t[w] ELSE t[SubSeq(w, 1, Len(w) - 1)]]

\* an initialisation that adds the plurals to the module's own scale table
InitializeInPlace(tables) ==
    [multiplies |-> DOMAIN WithPlurals(tables.SHORT_SCALE_EN),
     string_num_ordinal |-> tables.SHORT_ORDINAL_STRING_EN,
     string_num_scale |-> WithPlurals(tables.SHORT_SCALE_EN),
     module |-> [tables EXCEPT !.SHORT_SCALE_EN = WithPlurals(@)]]
\* _initialize_number_data(short_scale=True): the three tables it returns
\* and the module tables after it; the scale table is inverted into a new
\* dict and the plurals are added to that new dict
_initialize_number_data(tables) ==
    [multiplies |-> DOMAIN WithPlurals(tables.SHORT_SCALE_EN),
     string_num_ordinal |-> tables.SHORT_ORDINAL_STRING_EN,
     string_num_scale |-> WithPlurals(tables.SHORT_SCALE_EN),
     module |-> tables]

TwoCallsStart(t1, t2) ==
    /\ pc = "calls"
    /\ text = ""
    /\ ordinals = FALSE
    /\ buf = ""
    /\ results = <<>>
    /\ last = NoTuple
    /\ out1 = ""
    /\ out2 = ""
    /\ ret = "none"
    /\ unit = 0
    /\ pieces = <<>>
    /\ duration = VNone
    /\ dt = Locals(<<>>)
    /\ index = 0
    /\ dateNow = NoInstant
    /\ lexicon = ModuleTables
    /\ calls = <<NewCall(t1), NewCall(t2)>>

InitTwoCalls ==
    \E t1 \in TextsOver(CallVocab, MaxCallWords) :
        \E t2 \in TextsOver(CallVocab, MaxCallWords) : TwoCallsStart(t1, t2)

\* the locals of a call after the pass that extracted the tuple r
AfterExtraction(c, r) ==
    IF r.fault THEN [c EXCEPT !.pc = "ValueError"]
    ELSE IF ~Truthy(r.number) THEN [c EXCEPT !.pc = "done"]
    ELSE IF r.start_index = Absent
    THEN [c EXCEPT !.pc = "TypeError", !.results = Append(@, r)]
    ELSE [c EXCEPT !.results = Append(@, r),
                   !.buf = MaskText(@, r.start_index, r.end_index)]

\* one pass of the while loop of extract_numbers_with_text in call i
CallPass(i) ==
    /\ pc = "calls"
    /\ calls[i].pc = "loop"
    /\ calls' = [calls EXCEPT ![i] =
                    AfterExtraction(@, extract_number_with_text_en(@.buf, FALSE))]
    /\ lexicon' = _initialize_number_data(lexicon).module
    /\ UNCHANGED <<pc, text, ordinals, buf, results, last, out1, out2, ret, unit,
                   pieces, duration, dt, index, dateNow>>

NextCalls == CallPass(1) \/ CallPass(2)

SpecTwoCalls == InitTwoCalls /\ [][NextCalls]_vars

-----------------------------------------------------------------------------
(* The duration extractor                                                  *)

WrongSecondsMap ==
    <<[unit |-> "second", value |-> 1], [unit |-> "minute", value |-> 60],
      [unit |-> "hour", value |-> 60], [unit |-> "day", value |-> 86400],
      [unit |-> "week", value |-> 604800]>>
\* the dict of extract_duration_en, in its insertion order
time_unit_to_seconds_map ==
    <<[unit |-> "second", value |-> 1], [unit |-> "minute", value |-> 60],
      [unit |-> "hour", value |-> 3600], [unit |-> "day", value |-> 86400],
      [unit |-> "week", value |-> 604800]>>

RECURSIVE WordEnd(_, _)
\* index of the last character of the run of non-blank characters at i
\* (i - 1 when there is none)
WordEnd(s, i) ==
    IF i <= Len(s) /\ Char(s, i) # " " THEN WordEnd(s, i + 1) ELSE i - 1

RECURSIVE BlankEnd(_, _)
\* index of the last character of the run of blanks at i (i - 1 when none)
BlankEnd(s, i) ==
    IF i <= Len(s) /\ Char(s, i) = " " THEN BlankEnd(s, i + 1) ELSE i - 1

\* w as a whole matches \d+(?:\.?\d+)?
IsValue(w) ==
    LET Dotted(i) ==
            /\ i > 1
            /\ IsDigitStr(SubSeq(w, 1, i - 1))
            /\ IsDigitStr(SubSeq(w, i + 1, Len(w)))
    IN  IsDigitStr(w) \/ Dotted(DotIndex(w))

\* the pattern (?P<value>\d+(?:\.?\d+)?)\s+{unit}s? matched at position i of
\* s: the index of the last matched character, 0 when it does not match.
\* The value has no blank in it and a blank must follow it, so it runs up to
\* the first blank after i; the blanks of the text are spaces.
PatternAt(s, i, u) ==
    LET Unit(k, b, e) ==
            IF k >= i /\ IsValue(SubSeq(s, i, k)) /\ b > k /\ MatchAt(s, b + 1, u)
            THEN (IF MatchAt(s, e + 1, "s") THEN e + 1 ELSE e)
            ELSE 0
        Blanks(k, b) == Unit(k, b, b + Len(u))
        Value(k) == Blanks(k, BlankEnd(s, k + 1))
    IN  Value(WordEnd(s, i))

RECURSIVE PatternScan(_, _, _, _)
\* the left-to-right scan for non-overlapping matches shared by re.findall
\* and re.sub: the value groups of the matches and the text without them
PatternScan(s, i, u, acc) ==
    LET Match(e) ==
            IF e > 0
            THEN PatternScan(s, e + 1, u,
                             [matches |-> Append(acc.matches, SubSeq(s, i, WordEnd(s, i))),
                              text |-> acc.text])
            ELSE PatternScan(s, i + 1, u,
                             [matches |-> acc.matches, text |-> acc.text \o Char(s, i)])
    IN  IF i > Len(s) THEN acc ELSE Match(PatternAt(s, i, u))

\* re.findall(unit_pattern, s)
re_findall(u, s) == PatternScan(s, 1, u, [matches |-> <<>>, text |-> ""]).matches

\* re.sub(unit_pattern, '', s)
re_sub(u, s) == PatternScan(s, 1, u, [matches |-> <<>>, text |-> ""]).text

DurStart(t) ==
    /\ pc = "duration"
    /\ text = t
    /\ ordinals = FALSE
    /\ buf = text
    /\ results = <<>>
    /\ last = NoTuple
    /\ out1 = ""
    /\ out2 = ""
    /\ ret = "none"
    /\ unit = 0
    /\ pieces = <<>>
    /\ duration = VNone
    /\ dt = Locals(<<>>)
    /\ index = 0
    /\ dateNow = NoInstant
    /\ lexicon = ModuleTables
    /\ calls = <<>>

MaxDurWords == 4

DurVocab == {"two", "5", "0", "minus", "minutes", "hour", "x"}

InitDuration == \E t \in TextsOver(DurVocab, MaxDurWords) : DurStart(t)

\* the guard on the empty text and the call of convert_words_to_numbers
DurationConvert ==
    /\ pc = "duration"
    /\ IF text = ""
       THEN pc' = "done" /\ ret' = "None" /\ UNCHANGED <<buf, out1, unit>>
       ELSE \E c \in {convert_words_to_numbers(text, FALSE)} :
            IF c.fault
            THEN pc' = "fault" /\ ret' = "fault" /\ UNCHANGED <<buf, out1, unit>>
            ELSE /\ out1' = c.text
                 /\ buf' = c.text
                 /\ unit' = 1
                 /\ pc' = "units"
                 /\ UNCHANGED ret
    /\ UNCHANGED <<lexicon, calls>>
    /\ UNCHANGED <<text, ordinals, results, last, out2, pieces, duration, dt, index,
                   dateNow>>

\* one pass of the loop over time_unit_to_seconds_map
DurationUnit ==
    /\ pc = "units"
    /\ unit <= Len(time_unit_to_seconds_map)
    /\ \E u \in {time_unit_to_seconds_map[unit]} :
       \E matches \in {re_findall(u.unit, buf)} :
           /\ pieces' = pieces \o [m \in 1..Len(matches) |->
                                      Mul(FloatOf(matches[m]), VInt(u.value))]
           /\ buf' = re_sub(u.unit, buf)
    /\ unit' = unit + 1
    /\ UNCHANGED <<lexicon, calls>>
    /\ UNCHANGED <<pc, text, ordinals, results, last, out1, out2, ret, duration,
                   dt, index, dateNow>>

\* the strip, the sum and the return
DurationReturn ==
    /\ pc = "units"
    /\ unit > Len(time_unit_to_seconds_map)
    /\ buf' = Strip(buf)
    /\ duration' = (IF pieces # <<>> THEN SumList(pieces) ELSE VNone)
    /\ ret' = "pair"
    /\ pc' = "done"
    /\ UNCHANGED <<lexicon, calls>>
    /\ UNCHANGED <<text, ordinals, results, last, out1, out2, unit, pieces, dt,
                   index, dateNow>>

NextDuration == DurationConvert \/ DurationUnit \/ DurationReturn

SpecDuration == InitDuration /\ [][NextDuration]_vars

-----------------------------------------------------------------------------
(* The date-time extractor as a state machine                              *)

\* a reference instant on Tuesday the 27th of June 2017, with whole seconds
RefInstant(h, m) ==
    [year |-> 2017, month |-> 6, day |-> 27, hour |-> h, minute |-> m,
     second |-> 20]

DtStart(t, now) ==
    /\ pc = "datetime"
    /\ text = t
    /\ ordinals = FALSE
    /\ buf = ""
    /\ results = <<>>
    /\ last = NoTuple
    /\ out1 = ""
    /\ out2 = ""
    /\ ret = "none"
    /\ unit = 0
    /\ pieces = <<>>
    /\ duration = VNone
    /\ dt = Locals(<<>>)
    /\ index = 0
    /\ dateNow = now
    /\ lexicon = ModuleTables
    /\ calls = <<>>

MaxDtWords == 3

DtVocab == {"x", "day", "july", "of", "3:00", "in", "the", "and", "today", "3"}

InitDateTime ==
    \E t \in TextsOver(DtVocab, MaxDtWords) : \E h \in {2, 14} :
        DtStart(t, RefInstant(h, 4))

MaxHour == 24

InitBareHour ==
    \E H \in 0..MaxHour : \E h \in 0..23 : \E m \in {0, 30} :
        \E p \in {"at ", "meet me at "} :
            DtStart(p \o StrOfNat(H), RefInstant(h, m))

\* the guard on the empty text and clean_string
Clean ==
    /\ pc = "datetime"
    /\ IF text = ""
       THEN pc' = "done" /\ ret' = "None" /\ UNCHANGED dt
       ELSE \E r \in {clean_string(text)} :
            IF r.fault # ""
            THEN pc' = "fault" /\ ret' = r.fault /\ UNCHANGED dt
            ELSE pc' = "date_sweep" /\ dt' = Locals(r.words) /\ UNCHANGED ret
    /\ UNCHANGED <<lexicon, calls>>
    /\ UNCHANGED <<text, ordinals, buf, results, last, out1, out2, unit, pieces,
                   duration, index, dateNow>>

\* where a pass of a sweep leaves the extraction
AfterPass(r) ==
    /\ dt' = r
    /\ IF r.fault # "" THEN pc' = "fault" /\ ret' = r.fault /\ UNCHANGED index
       ELSE IF r.returned THEN pc' = "done" /\ ret' = "pair" /\ UNCHANGED index
       ELSE index' = index + 1 /\ UNCHANGED <<pc, ret>>

\* one pass of the first loop
DateSweep ==
    /\ pc = "date_sweep"
    /\ index < Len(dt.words)
    /\ AfterPass(DateSweepBody(dt, index, dateNow))
    /\ UNCHANGED <<lexicon, calls>>
    /\ UNCHANGED <<text, ordinals, buf, results, last, out1, out2, unit, pieces,
                   duration, dateNow>>

\* the end of the first loop and the initial values of the second
TimeSweepStart ==
    /\ pc = "date_sweep"
    /\ index = Len(dt.words)
    /\ pc' = "time_sweep"
    /\ index' = 0
    /\ dt' = [dt EXCEPT !.hrOffset = 0, !.minOffset = 0, !.secOffset = 0,
                        !.hrAbs = None, !.minAbs = None, !.military = FALSE]
    /\ UNCHANGED <<lexicon, calls>>
    /\ UNCHANGED <<text, ordinals, buf, results, last, out1, out2, ret, unit,
                   pieces, duration, dateNow>>

\* one pass of the second loop
TimeSweep ==
    /\ pc = "time_sweep"
    /\ index < Len(dt.words)
    /\ AfterPass(TimeSweepBody(dt, index, dateNow))
    /\ UNCHANGED <<lexicon, calls>>
    /\ UNCHANGED <<text, ordinals, buf, results, last, out1, out2, unit, pieces,
                   duration, dateNow>>

\* the test of date_found, the date arithmetic and the return
Return ==
    /\ pc = "time_sweep"
    /\ index = Len(dt.words)
    /\ IF ~date_found_object
       THEN pc' = "done" /\ ret' = "None" /\ UNCHANGED dt
       ELSE \E r \in {Compose(dt, dateNow)} :
            /\ dt' = r
            /\ IF r.fault # "" THEN pc' = "fault" /\ ret' = r.fault
               ELSE pc' = "done" /\ ret' = "pair"
    /\ UNCHANGED <<lexicon, calls>>
    /\ UNCHANGED <<text, ordinals, buf, results, last, out1, out2, unit, pieces,
                   duration, index, dateNow>>

NextDateTime == Clean \/ DateSweep \/ TimeSweepStart \/ TimeSweep \/ Return

SpecDateTime == InitDateTime /\ [][NextDateTime]_vars

SpecBareHour == InitBareHour /\ [][NextDateTime]_vars

\* a weekday name, alone or after "next" or "last", on each day of the week
\* from Sunday the 25th of June 2017
InitWeekday ==
    \E i \in 1..Len(days) : \E p \in {"", "next ", "last "} : \E k \in 0..6 :
        DtStart(p \o days[i], [RefInstant(14, 4) EXCEPT !.day = 25 + k])

SpecWeekday == InitWeekday /\ [][NextDateTime]_vars

MaxFromWords == 4

\* "from <anchor>" and the plain tokens that may follow it
FromVocab == {"from", "tomorrow", "today", "2", "days", "monday", "july"}

InitFrom ==
    \E t \in TextsOver(FromVocab, MaxFromWords) : DtStart(t, RefInstant(14, 4))

SpecFrom == InitFrom /\ [][NextDateTime]_vars

MaxAnchorWords == 3

\* the words that stand for an hour of the day
AnchorWords == {"noon", "midnight", "morning", "afternoon", "evening"}

InitAnchors ==
    \E t \in TextsOver(AnchorWords \cup {"x"}, MaxAnchorWords) :
        DtStart(t, RefInstant(14, 4))

SpecAnchors == InitAnchors /\ [][NextDateTime]_vars

MaxClockWords == 3

\* an offset phrase, an anchor word, a clock time, a clock time with an
\* impossible minute, and a word of no pattern
ClockVocab == {"3", "hours", "noon", "5:00", "3:75", "x"}

InitClock ==
    \E t \in TextsOver(ClockVocab, MaxClockWords) : \E h \in {2, 14, 16} :
        DtStart(t, RefInstant(h, 4))

SpecClock == InitClock /\ [][NextDateTime]_vars

\* a month/day literal, with or without a year, around the reference day
MonthDayTexts ==
    {m \o " " \o d \o y : m \in {"may", "june", "july"},
                          d \in {"26", "27", "28"},
                          y \in {"", " 2016", " 2017", " 2018"}}

InitMonthDay ==
    \E t \in MonthDayTexts : \E h \in {0, 2, 14} : DtStart(t, RefInstant(h, 4))

SpecMonthDay == InitMonthDay /\ [][NextDateTime]_vars

MaxNowWords == 3

\* "now" among a relative offset, a weekday name, the words of a month/day
\* literal and a word of no pattern
NowVocab == {"now", "tomorrow", "monday", "july", "3", "x"}

InitNow ==
    \E t \in TextsOver(NowVocab, MaxNowWords) : DtStart(t, RefInstant(14, 4))

SpecNow == InitNow /\ [][NextDateTime]_vars

MaxPinnedHour == 12

\* the patterns of the date sweep that pin a day
DayPins == {"today", "tomorrow", "tuesday", "friday", "july 3"}

InitPinnedHour ==
    \E p \in DayPins : \E H \in 1..MaxPinnedHour : \E h \in {0, 2, 9, 14, 16, 23} :
        DtStart(p \o " at " \o StrOfNat(H), RefInstant(h, 4))

SpecPinnedHour == InitPinnedHour /\ [][NextDateTime]_vars

MaxFrameWords == 4

\* two words of no pattern among the words of "from next <weekday>" and "now"
FrameVocab == {"x", "y", "from", "next", "monday", "now"}

InitFrame ==
    \E t \in TextsOver(FrameVocab, MaxFrameWords) : DtStart(t, RefInstant(14, 4))

SpecFrame == InitFrame /\ [][NextDateTime]_vars

-----------------------------------------------------------------------------
(* Properties of the number extractor and the rewriter                     *)

\* the number of tokens of the text the running extraction works on (the
\* masking keeps it)
TokenCount == Len(Split(buf))

SpanInRange(r) ==
    /\ r.start_index # Absent
    /\ r.end_index # Absent
    /\ 0 <= r.start_index
    /\ r.start_index <= r.end_index
    /\ r.end_index < TokenCount

\* C4: convert_words_to_numbers is idempotent: applied to its own result it
\* returns that result unchanged.
C4_ConvertIdempotent == pc = "done" => out2 = out1

\* C8: whenever extract_number_with_text_en returns a truthy number, its
\* start_index and end_index are present and 0 <= start_index <= end_index <
\* number of tokens; so is every tuple collected by extract_numbers_with_text.
C8_SpanIndicesInRange ==
    /\ (~last.fault /\ Truthy(last.number)) => SpanInRange(last)
    /\ \A j \in 1..Len(results) : SpanInRange(results[j])

\* a number was returned whose span covers several tokens up to the last one
C8_Witness ==
    /\ Truthy(last.number)
    /\ last.start_index < last.end_index
    /\ last.end_index = TokenCount - 1
    /\ Len(results) > 0

\* C9: the tokens consumed by one extraction are a contiguous run of token
\* indices: the returned text has one word for every index of
\* [start_index, end_index].
C9_SpanContiguous ==
    (~last.fault /\ Truthy(last.number) /\ last.start_index # Absent)
        => Len(Split(last.string)) = last.end_index - last.start_index + 1

\* the placeholders among the tokens of text t
PlaceholderCount(t) ==
    Cardinality({i \in 1..Len(Split(t)) : Split(t)[i] = placeholder})

\* a pass of the loop of extract_numbers_with_text that does not leave it
LoopPassStays == pc \in {"numbers1", "numbers2"} /\ pc' = pc

\* the pass keeps the placeholders and turns one more token into one
MasksOneMore ==
    /\ Len(Split(buf')) = Len(Split(buf))
    /\ \A i \in 1..Len(Split(buf)) :
           Split(buf)[i] = placeholder => Split(buf')[i] = placeholder
    /\ \E i \in 1..Len(Split(buf)) :
           Split(buf)[i] # placeholder /\ Split(buf')[i] = placeholder
    /\ Len(results') = Len(results) + 1

\* C11: the loop of extract_numbers_with_text terminates: a pass that does
\* not leave the loop turns at least one token that was no placeholder into
\* a placeholder, the passes that stay are never more than the tokens (so
\* the passes are at most the tokens plus one), and every call ends.
C11_LoopTerminates ==
    /\ [][LoopPassStays => MasksOneMore]_vars
    /\ [](pc \in {"numbers1", "numbers2", "rewrite1", "rewrite2"}
             => /\ Len(results) <= PlaceholderCount(buf)
                /\ PlaceholderCount(buf) <= TokenCount)
    /\ <>(pc \in {"done", "fault"})

\* the loop has left after two passes that each masked a number
C11_Witness ==
    /\ pc = "rewrite1"
    /\ Len(results) = 2
    /\ PlaceholderCount(buf) = 2
    /\ TokenCount = 3

\* what the rewriter is to emit for the token of index idx and word w, from
\* the spans rs: the word when no span covers the index, else the value of
\* every span that starts there
EmittedFor(idx, w, rs) ==
    IF \A j \in 1..Len(rs) : ~(rs[j].start_index <= idx /\ idx <= rs[j].end_index)
    THEN <<w>>
    ELSE LET Starting == SelectSeq(rs, LAMBDA r : r.start_index = idx)
         IN  [j \in 1..Len(Starting) |-> StrOfVal(Starting[j].number)]

RECURSIVE EmittedFrom(_, _, _)
EmittedFrom(tokens, i, rs) ==
    IF i > Len(tokens) THEN <<>>
    ELSE EmittedFor(tokens[i].index, tokens[i].word, rs) \o EmittedFrom(tokens, i + 1, rs)

\* the text of the tokens of t rewritten span by span
RewrittenBySpans(t, rs) == Join(EmittedFrom(_tokenize(t), 1, SortByStart(rs)))

\* C12: convert_words_to_numbers emits, in the original order, every token
\* whose index lies in no extracted span as it is, and for every extracted
\* span its stringified value once, at the span's start_index, and nothing
\* for the span's other indices; no token after the last span is dropped.
C12_RewriteBySpans ==
    [][/\ pc = "rewrite1" => out1' = RewrittenBySpans(text, results)
       /\ pc = "rewrite2" => out2' = RewrittenBySpans(out1, results)]_vars

\* the integer the cardinal phrase t denotes
Denoted(t) == (CHOOSE p \in CardinalPhrases : Join(p.words) = t).value

\* C14: for a cardinal phrase of ones-words, tens-words and scale words the
\* number extracted from the phrase is the integer the phrase denotes (tens
\* plus ones, value times scale, scale groups added up).
C14_CardinalValue ==
    (pc \in {"numbers1", "rewrite1"} /\ last # NoTuple)
        => /\ results # <<>>
           /\ results[1].number = VInt(Denoted(text))

\* what extract_numbers_with_text(t) does when it runs alone
RunAlone(t) == NumbersLoop(t, FALSE, <<>>)

\* call i has returned or raised what it returns or raises when run alone
SameAsAlone(i) ==
    calls[i].pc # "loop"
        => /\ calls[i].results = RunAlone(calls[i].text).results
           /\ (calls[i].pc = "done") = ~RunAlone(calls[i].text).fault

AfterMarker(t) == Join(Tail(Split(t)))

\* C26: a number phrase directly after a negative marker yields the negation
\* of the value the phrase yields without the marker, for single words and
\* for phrases of several words alike.
C26_MarkerNegates ==
    (pc = "numbers1" /\ Len(results) = 1)
        => results[1].number =
               Sub(VInt(0),
                   extract_number_with_text_en(AfterMarker(text), FALSE).number)

\* C27: the value returned with a span is derived from the tokens of the
\* span only: extracting a number from the matched text alone returns the
\* same value, so the to-sum accumulator holds nothing of a token that was
\* dropped when the consumed buffer was reset.
C27_ValueOfSpanAlone ==
    (last # NoTuple /\ ~last.fault /\ Truthy(last.number))
        => extract_number_with_text_en(last.string, ordinals).number = last.number

\* two spans with a token index in common
Overlap(a, b) == a.start_index <= b.end_index /\ b.start_index <= a.end_index

\* C28: the spans returned by one call of extract_numbers_with_text are
\* pairwise disjoint: no span of a later pass covers a token that an earlier
\* pass replaced by a placeholder.
C28_SpansDisjoint ==
    \A i, j \in DOMAIN results :
        (i < j /\ results[i].start_index # Absent /\ results[j].start_index # Absent)
            => ~Overlap(results[i], results[j])

\* a word that is a non-zero digit literal or a non-zero number word
NonZeroNumberWord(w) ==
    \/ IsDigitStr(w) /\ IntOfDigits(w) # 0
    \/ w \in DOMAIN NUM_STRING_EN /\ NUM_STRING_EN[w] # 0

\* C10: when the loop of extract_numbers_with_text has ended, every non-zero
\* digit literal and non-zero number word of the text lies in the index range
\* of some returned span.
C10_AllNumbersReturned ==
    pc = "rewrite1" =>
        \A i \in 1..Len(Split(text)) :
            NonZeroNumberWord(Split(text)[i]) =>
                \E j \in 1..Len(results) :
                    /\ results[j].start_index <= i - 1
                    /\ i - 1 <= results[j].end_index

-----------------------------------------------------------------------------
(* Properties of the duration extractor                                    *)

\* the multipliers of the five units, in seconds
UnitSeconds ==
    [second |-> 1, minute |-> 60, hour |-> 3600, day |-> 86400, week |-> 604800]

UnitNames == <<"second", "minute", "hour", "day", "week">>

\* the position from which the word w reads as an unsigned decimal literal
\* to its end (0 when it does not end in one)
LiteralStart(w) ==
    IF \E i \in 1..Len(w) : IsValue(SubSeq(w, i, Len(w)))
    THEN CHOOSE i \in 1..Len(w) :
             /\ IsValue(SubSeq(w, i, Len(w)))
             /\ \A j \in 1..(i - 1) : ~IsValue(SubSeq(w, j, Len(w)))
    ELSE 0

RECURSIVE SpansOfUnit(_, _, _, _)
\* the "<number> <unit>" spans of the words ws for the unit u, singular or
\* plural: the seconds each one stands for and the words outside the spans
SpansOfUnit(ws, i, u, acc) ==
    IF i > Len(ws) THEN acc
    ELSE IF i < Len(ws) /\ LiteralStart(ws[i]) > 0 /\ ws[i + 1] \in {u, u \o "s"}
    THEN LET st == LiteralStart(ws[i])
             number == FloatOf(SubSeq(ws[i], st, Len(ws[i])))
             before == SubSeq(ws[i], 1, st - 1)
         IN  SpansOfUnit(ws, i + 2, u,
                 [seconds |-> Append(acc.seconds, Mul(number, VInt(UnitSeconds[u]))),
                  words |-> IF before = "" THEN acc.words
                            ELSE Append(acc.words, before)])
    ELSE SpansOfUnit(ws, i + 1, u,
             [seconds |-> acc.seconds, words |-> Append(acc.words, ws[i])])

RECURSIVE SpansUpTo(_, _)
\* the spans of the first j units, each unit's spans taken out of the words
\* before the next unit is looked for
SpansUpTo(ws, j) ==
    IF j = 0 THEN [seconds |-> <<>>, words |-> ws]
    ELSE LET p == SpansUpTo(ws, j - 1) IN
         SpansOfUnit(p.words, 1, UnitNames[j], [seconds |-> p.seconds, words |-> <<>>])

MatchedSeconds(t) == SpansUpTo(Split(t), Len(UnitNames)).seconds

\* C5: on a non-empty text the first component returned by extract_duration_en
\* is the sum, over every "<number> <unit>" match of the rewritten text for
\* the units second, minute, hour, day and week, of number times 1, 60, 3600,
\* 86400 or 604800; it is absent exactly when no unit matched, and the float
\* 0.0 when units matched and the sum is zero.
C5_DurationIsSumOfMatches ==
    (pc = "done" /\ ret = "pair") =>
        IF MatchedSeconds(out1) = <<>>
        THEN duration = VNone
        ELSE duration.k = "float" /\ duration = SumList(MatchedSeconds(out1))

\* a duration summed over matches of two different units
C5_Witness ==
    /\ pc = "done"
    /\ ret = "pair"
    /\ Len(pieces) >= 2
    /\ Truthy(duration)
    /\ duration.n % 3600 # 0
    /\ duration.n > 3600

RECURSIVE IsSubsequence(_, _)
\* the words a are words of b, in the order of b
IsSubsequence(a, b) ==
    IF a = <<>> THEN TRUE
    ELSE IF b = <<>> THEN FALSE
    ELSE IF a[1] = b[1] THEN IsSubsequence(Tail(a), Tail(b))
    ELSE IsSubsequence(a, Tail(b))

\* C6: the remainder returned by extract_duration_en is the input text
\* without the words of the matched "<number> <unit>" spans: its words are
\* input words, unchanged and in their order, and when nothing matched they
\* are all the input words.
C6_RemainderIsInputWords ==
    (pc = "done" /\ ret = "pair") =>
        /\ IsSubsequence(Split(buf), Split(text))
        /\ pieces = <<>> => Split(buf) = Split(text)

\* C7: extract_duration_en returns a pair (seconds or absent, remainder) for
\* every input text, the empty text included.
C7_AlwaysReturnsPair == pc \in {"done", "fault"} => ret = "pair"

-----------------------------------------------------------------------------
(* Properties of the date-time extractor                                   *)

\* both sweeps have run to the end of the words and recognised nothing: no
\* offset, no date string, no absolute hour or minute, found never set
NoSignal ==
    /\ index = Len(dt.words)
    /\ ~date_found(dt)
    /\ dt.dayOffset = 0

\* C1: for a non-empty text in which neither sweep recognises a date or time
\* signal, extract_datetime_en returns None; it returns a [datetime,
\* remainder] pair only when a signal was found.
C1_NoSignalReturnsNone ==
    (pc = "done" /\ text # "" /\ NoSignal) => ret = "None"

\* C2: for every non-empty text and reference instant extract_datetime_en
\* completes without raising: no step reads the first character of an empty
\* word, indexes outside the word list or fails to parse the date string.
C2_DateTimeNeverRaises == pc # "fault"

\* the hour named by the last word of the text
BareHourOf(t) == IntOfDigits(Split(t)[Len(Split(t))])

\* the result is the hour hr, at minute 0, k days after the reference day;
\* hour 24 of a day is hour 0 of the day after it
ResolvedTo(k, hr) ==
    dt.extractedDate =
        IF hr = 24 THEN AddDays(Midnight(dateNow), k + 1)
        ELSE [AddDays(Midnight(dateNow), k) EXCEPT !.hour = hr]

NotATime == ResolvedTo(0, 0) /\ dt.resultStr = text /\ ~dt.found

PlainWords(ws) == SelectSeq(ws, LAMBDA w : w \in {"x", "y"})

\* C13: the remainder returned by extract_datetime_en holds, in their order,
\* the words of the cleaned text that no recognised pattern consumed and that
\* are no marker before a pattern: a word of no pattern is never blanked or
\* dropped.
C13_RemainderKeepsPlainWords ==
    (pc = "done" /\ ret = "pair")
        => PlainWords(Split(dt.resultStr)) = PlainWords(clean_string(text).words)

\* the weekday name that ends the text, counted from monday = 1
TargetDay == CHOOSE i \in 1..Len(days) : days[i] = Split(text)[Len(Split(text))]

\* C16: for a weekday name the day offset set by the date sweep is
\* ((target_weekday + 1) - current_weekday) mod 7, a value of 0..6, for every
\* target and every reference weekday; "next" adds 7 to it and "last"
\* subtracts 7.
C16_WeekdayOffset ==
    pc \in {"time_sweep", "done"} =>
        dt.dayOffset = ((TargetDay - WeekdayW(dateNow)) % 7)
                           + (IF Split(text)[1] = "next" THEN 7
                              ELSE IF Split(text)[1] = "last" THEN 0 - 7 ELSE 0)

\* a pass of the date sweep over a word other than "from" and "after", made
\* with the from-flag set, that neither raises nor returns
PlainPassUnderFromFlag ==
    /\ pc = "date_sweep"
    /\ index < Len(dt.words)
    /\ dt.fromFlag
    /\ dt.words[index + 1] \notin {"from", "after"}
    /\ pc' = "date_sweep"

\* C17: once a "from"/"after" <anchor> phrase has set the from-flag, no later
\* plain token of the date sweep (today, tomorrow, a day, week, month or year
\* count, a weekday name, a month name) changes the day, month or year offset
\* or the captured date string.
C17_FromFlagFreezesOffsets ==
    [][PlainPassUnderFromFlag
          => /\ dt'.dayOffset = dt.dayOffset
             /\ dt'.monthOffset = dt.monthOffset
             /\ dt'.yearOffset = dt.yearOffset
             /\ dt'.datestr = dt.datestr]_vars

\* a pass of the time sweep over an anchor word, an absolute hour being set
AnchorPassWithHourSet ==
    /\ pc = "time_sweep"
    /\ index < Len(dt.words)
    /\ dt.hrAbs # None
    /\ dt.words[index + 1] \in AnchorWords
    /\ pc' = "time_sweep"

\* C18: of the anchor words noon, midnight, morning, afternoon and evening
\* only the first one the time sweep meets sets the absolute hour: a later
\* anchor word of any of the five kinds leaves it unchanged.
C18_FirstAnchorWins == [][AnchorPassWithHourSet => dt'.hrAbs = dt.hrAbs]_vars

\* the time sweep matched a relative offset phrase
OffsetMatched == dt.hrOffset # 0 \/ dt.minOffset # 0 \/ dt.secOffset # 0

\* C19: when the time sweep matched a relative offset phrase anywhere in the
\* text, the result is the reference instant plus the offsets: no absolute
\* hour or minute of an anchor word or a clock time of the same text, before
\* or after the phrase, is applied.
C19_OffsetPhraseDropsAbsoluteTime ==
    (pc = "done" /\ ret = "pair" /\ OffsetMatched)
        => dt.extractedDate =
               AddSeconds(AddDays(dateNow, dt.dayOffset),
                          dt.hrOffset * 3600 + dt.minOffset * 60 + dt.secOffset)

\* a pass of the time sweep over a digit-leading word that is taken neither
\* as a clock time nor as a relative offset phrase
RejectedDigitPass ==
    /\ pc = "time_sweep"
    /\ index < Len(dt.words)
    /\ HeadDigit(dt.words[index + 1])
    /\ pc' = "time_sweep"
    /\ dt'.used = 0

\* C20: a digit-leading token that the time sweep does not accept as a clock
\* time and that is no relative offset phrase leaves the accumulator as it
\* was: the day offset, the hour, minute and second offsets, the absolute
\* hour and minute and the word list, whatever the reference hour.
C20_RejectedDigitsChangeNothing ==
    [][RejectedDigitPass
          => /\ dt'.dayOffset = dt.dayOffset
             /\ dt'.hrOffset = dt.hrOffset
             /\ dt'.minOffset = dt.minOffset
             /\ dt'.secOffset = dt.secOffset
             /\ dt'.hrAbs = dt.hrAbs
             /\ dt'.minAbs = dt.minAbs
             /\ dt'.words = dt.words]_vars

\* the composition of a result whose absolute hour was read from the text
\* (an anchor word or a clock time), with no day pinned and no date literal
AbsoluteTimeComposed ==
    /\ pc = "time_sweep"
    /\ pc' = "done"
    /\ ret' = "pair"
    /\ dt.hrAbs # None
    /\ dt.hrAbs # 0 - 1
    /\ dt.minAbs # 0 - 1
    /\ ~dt.daySpecified
    /\ dt.datestr = ""
    /\ dt.dayOffset >= 0
    /\ dt.hrOffset >= 0 /\ dt.minOffset >= 0 /\ dt.secOffset >= 0

\* C21: when an absolute hour is applied in the composition, no day was
\* specified and no month/day literal was captured, the result is never
\* earlier than the reference instant, for every absolute hour, midnight
\* included.
C21_AbsoluteTimeNotInPast ==
    [][AbsoluteTimeComposed => ~Before(dt'.extractedDate, dateNow)]_vars

\* the date a month/day literal "<month> <day> [<year>]" names for the
\* reference instant: the reference year, the year after when the day has
\* passed, or the year of the literal
LiteralDate(t, now) ==
    LET In(y, m, d) ==
            [year |-> y, month |-> m, day |-> d, hour |-> 0, minute |-> 0,
             second |-> 0]
        Of(w, m, d) ==
            In(IF Len(w) = 3 THEN IntOfDigits(w[3])
               ELSE IF m < now.month \/ (m = now.month /\ d < now.day)
               THEN now.year + 1 ELSE now.year,
               m, d)
        Words(w) == Of(w, IndexOf(months, w[1]) + 1, IntOfDigits(w[2]))
    IN  Words(Split(t))

\* C22: a month/day literal without a year resolves to that day of the
\* reference year, or of the following year when the day is before the
\* reference day; the reference day itself stays in the reference year; with
\* a year in the literal, that year is used.
C22_MonthDayYear ==
    (pc = "done" /\ ret = "pair") => dt.extractedDate = LiteralDate(text, dateNow)

\* the composition of a result at the end of the time sweep
Composed == pc = "time_sweep" /\ pc' = "done" /\ ret' = "pair"

\* C23: the composition starts from the reference instant with its seconds
\* zeroed, so the seconds of the returned date-time are the second offset
\* found in the text, modulo 60, whatever the seconds of the reference
\* instant, also when the text holds only a relative hour or minute offset.
C23_SecondsZeroed ==
    [][Composed => dt'.extractedDate.second = dt.secOffset % 60]_vars

\* a pass of the date sweep over the word "now", not blanked before
NowReached ==
    /\ pc = "date_sweep"
    /\ index < Len(dt.words)
    /\ dt.words[index + 1] = "now"

\* C24: when the date sweep reaches the word "now", the extraction returns
\* the reference instant at once, whatever date words came before it and
\* whatever words follow it.
C24_NowShortCircuits ==
    [][NowReached => /\ pc' = "done"
                     /\ ret' = "pair"
                     /\ dt'.extractedDate = dateNow]_vars

\* a pass of the time sweep over a bare hour when the date sweep has pinned
\* a day
PinnedHourPass ==
    /\ pc = "time_sweep"
    /\ index < Len(dt.words)
    /\ dt.daySpecified
    /\ IsDigitStr(dt.words[index + 1])
    /\ pc' = "time_sweep"

\* C25: when the date sweep consumed a day-pinning pattern, a bare hour H of
\* the same text is kept as hour H and the time sweep does not change the
\* day offset.
C25_PinnedDayKeepsHour ==
    [][PinnedHourPass => /\ dt'.hrAbs = IntOfDigits(dt.words[index + 1])
                         /\ dt'.dayOffset = dt.dayOffset]_vars

=============================================================================
